---- MODULE Spec2Model ----
(***************************************************************************)
(* Verification model of ngx-locator:                                      *)
(*   - the scan watcher of the file-opener server (startScanWatch),        *)
(*   - the scanner subprocess (cmp-scan main) over the file system,        *)
(*   - the browser-side identity resolver,                                 *)
(*   - the content search ranker (findBestLineInFile),                     *)
(*   - the open dispatcher (launchInEditor),                               *)
(*   - the HTTP endpoints of the file-opener server,                       *)
(*   - the source filter and the build loop of cmp-scan over real paths,   *)
(*   - the locator in the page: install, index fetches, click and hover.   *)
(* Each subsystem has its own specification; the variables of the other    *)
(* subsystems stay at their initial value.                                 *)
(***************************************************************************)
EXTENDS Integers, Sequences, FiniteSets, TLC

Min(a, b) == IF a < b THEN a ELSE b
Max(a, b) == IF a > b THEN a ELSE b

(***************************************************************************)
(* State.                                                                  *)
(***************************************************************************)

\* ---- startScanWatch ----
VARIABLES
  watchMode,     \* "watch": fs.watch attached; "poll": the setInterval fallback
  scanRunning,   \* let scanRunning
  scanQueued,    \* let scanQueued
  timer,         \* remaining ms of the armed debounce timeout, or NoTimer
  pollLeft,      \* remaining ms to the next poll tick (poll mode), else NoTimer
  procs,         \* scan subprocesses spawned and not yet closed
  lastCode,      \* exit code seen by the last 'close' handler (-1: none yet)
  \* history variables (observers, never read by the modelled code)
  hTrack,        \* "off" | "on": a scan closed with a queued request and
                 \*   no trigger (notification, poll tick) arrived since
  hStarted,      \* scans started since that close (saturates at 2)
  hPending,      \* a notification arrived and no timer-driven runScan since
  hSince,        \* ms since the last notification (while hPending)
  hDelay,        \* hSince at the timer-driven runScan call that served the
                 \*   last burst, -1 if none yet
  hRearmed,      \* the close handler re-armed the timer while hPending
  hFires,        \* timer firings since the last scheduleScan call
  hBurst,        \* notifications of the current burst (saturates at 2)
  hUnserved      \* a notification arrived and no scan was started since

watchVars == <<watchMode, scanRunning, scanQueued, timer, pollLeft, procs,
               lastCode, hTrack, hStarted, hPending, hSince, hDelay,
               hRearmed, hFires, hBurst, hUnserved>>

\* ---- cmp-scan and the file system ----
VARIABLES
  files,        \* the source tree: path -> [exists, content, mtime]
  clock,        \* last mtime the file system handed out
  cacheFile,    \* .open-in-editor/scan-cache.json
  indexFile,    \* .open-in-editor/component-map.json
  pc,           \* position of the scanner subprocess in main()
  sfiles,       \* project.getSourceFiles(): <<[path, classes]>> as loaded
  curStats,     \* const currentStats
  runId,        \* scanner runs started so far (stands for new Date())
  served,       \* kind of the body the last GET /__cmp-map streamed
  broken,       \* the files on which a ts-morph call of the build loop throws
  \* history variables
  hCacheAtStart, \* cacheFile when the current/last run started
  hIndexAtStart, \* indexFile when the current/last run started
  hIndexDone,    \* this run's index write completed successfully
  hOutcome,      \* "none" | "skipped" | "rebuild" | "buildFailed" |
                 \*   "indexFailed" | "cacheFailed" | "saved"
  hPrev,         \* previousCache as loaded at the decision
  hIdxExisted,   \* fs.existsSync(outFile) at the decision
  hEnvSince,     \* the tree or the index file was touched from outside
                 \*   since the current/last run started
  hPrevOk,       \* the run before the current/last one exited 0 and nothing
                 \*   was touched from outside since that run started
  hTouch         \* the touch-and-revert experiment: its phase, the file,
                 \*   its mtime and the index before, runId at the last step

scanVars == <<files, clock, cacheFile, indexFile, pc, sfiles, curStats, runId,
              served, broken, hTouch, hCacheAtStart, hIndexAtStart, hIndexDone, hOutcome,
              hPrev, hIdxExisted, hEnvSince, hPrevOk>>

\* ---- the resolver in the browser ----
VARIABLES
  srcTree,      \* what the scanner found: <<[path, classes]>>
  CMP_MAP,      \* let CMP_MAP: CmpMap | null
  locPath,      \* window.location.pathname
  lastQuery,    \* class name of the last getComponentInfoByClassName call
  lastResult,   \* what it returned (with the names it consulted)
  hAt           \* history: location.pathname and CMP_MAP !== null at that call

resVars == <<srcTree, CMP_MAP, locPath, lastQuery, lastResult, hAt>>

\* ---- findBestLineInFile ----
VARIABLES
  rkContent,    \* fs.readFileSync(filePath, 'utf8') of the target file
  rkTerms,      \* searchTerms of the last call
  rkScores,     \* const scores when the call ended, each entry doubled
                \*   (weight * 1.5 is kept as an integer)
  rkThrew,      \* the call ended in its catch block
  rkBest        \* what the call returned (0: not called yet)

rankVars == <<rkContent, rkTerms, rkScores, rkThrew, rkBest>>

\* ---- launchInEditor ----
VARIABLES
  lnEditorCmd,  \* process.env.EDITOR_CMD is set
  lnEnvEditor,  \* process.env.LAUNCH_EDITOR ("" when unset)
  lnCfgEditor,  \* cfg.editor ("" when unset)
  lnCfgFallback, \* cfg.fallbackEditor ("" when unset)
  lnCli,        \* the editors whose CLI `which` finds
  lnPreferred,  \* DEFAULT_EDITOR
  lnFallback,   \* FALLBACK_EDITOR
  lnLog,        \* the spawn calls of the last request, in order:
                \*   <<[strategy, editor, outcome]>>
  lnResult      \* what launchInEditor returned: "none" | "true" | "false"

launchCfg == <<lnEditorCmd, lnEnvEditor, lnCfgEditor, lnCfgFallback, lnCli,
               lnPreferred, lnFallback>>
launchVars == <<launchCfg, lnLog, lnResult>>

\* ---- the source filter and the build loop of cmp-scan ----
VARIABLES
  bdFound,      \* project.getSourceFiles(): <<[path, classes]>>, paths as text
  bdGlobs,      \* const excludeGlobs
  bdSources,    \* const sourceFiles, once the filter has run
  bdIndex       \* const out, once the loop has run (NoIndex before)

buildVars == <<bdFound, bdGlobs, bdSources, bdIndex>>

\* ---- the HTTP endpoints of the server ----
VARIABLES
  svReq,        \* the last request an open endpoint or the router answered
  svStatus,     \* res.statusCode of the answer (0: no request yet; -1: the
                \*   listener threw before answering)
  svTarget,     \* the parts of the fileWithPos handed to launchInEditor
  svPending     \* svReq is waiting for the listener

srvVars == <<svReq, svStatus, svTarget, svPending>>

\* ---- the locator in the page (src/src/browser/index.ts) ----
VARIABLES
  INSTALLED,    \* let INSTALLED
  OPTIONS,      \* let OPTIONS: [prefetchMap, enableHover, enableClick,
                \*   showTooltip]
  mapLoadPromise, \* let mapLoadPromise is non-null
  isAltPressed, \* let isAltPressed
  currentTooltip, \* the element whose tooltip currentTooltip holds, or
                \*   NoElement for null
  currentHighlightOverlay, \* the element currentHighlightOverlay outlines,
                \*   or NoElement for null
  lastHighlightedElement, \* let lastHighlightedElement (NoElement: null)
  listeners,    \* registered listeners: [click, keydown, keyup, mousemove,
                \*   window] (window: the scroll/resize/blur closures)
  domOverlays,  \* .dev-highlight-overlay elements attached to document.body
  domTooltips,  \* .dev-tooltip elements attached to document.body
  fetches,      \* the fetches of /__cmp-map in flight, in the order they
                \*   were issued: <<[by, res, overtaken]>>
  lastClick,    \* the last click event: [target, altKey, shiftKey, state,
                \*   cmp, net, requests]: what getNearestComponent returned
                \*   for it, how the fetch of its first request ended and
                \*   the requests it issued
  altDown,      \* the Alt key is physically down
  focused,      \* the window has the focus
  \* history variables
  hMoved,       \* the element of the mousemove event the last step handled
                \*   (NoElement: the last step was something else)
  hLatest,      \* the index carried by the latest-issued fetch among those
                \*   answered with an index so far (NullMap: none)
  hRefresh,     \* the last refreshComponentMap call: CMP_MAP before the call
                \*   and whether the call has ended in its catch block
  hCalls,       \* installAngularLocator calls so far (saturates at
                \*   MaxInstalls)
  hFirstOptions \* the merged options of the first installAngularLocator call

pageVars == <<INSTALLED, OPTIONS, mapLoadPromise, isAltPressed,
              currentTooltip, currentHighlightOverlay,
              lastHighlightedElement, listeners, domOverlays, domTooltips,
              fetches, lastClick, altDown, focused, hMoved, hLatest,
              hRefresh, hCalls, hFirstOptions>>

vars == <<watchVars, scanVars, resVars, rankVars, launchVars, srvVars,
         buildVars, pageVars>>

\* What an action of one subsystem leaves alone.
WatchFrame ==
  UNCHANGED <<scanVars, resVars, rankVars, launchVars, srvVars, buildVars,
              pageVars>>
ScanFrame ==
  UNCHANGED <<watchVars, resVars, rankVars, launchVars, srvVars, buildVars,
              pageVars, broken, hTouch>>
TouchFrame ==
  UNCHANGED <<watchVars, resVars, rankVars, launchVars, srvVars, buildVars,
              pageVars, broken>>
ResFrame ==
  UNCHANGED <<watchVars, scanVars, rankVars, launchVars, srvVars, buildVars,
              pageVars>>
RankFrame ==
  UNCHANGED <<watchVars, scanVars, resVars, launchVars, srvVars, buildVars,
              pageVars>>
LaunchFrame ==
  UNCHANGED <<watchVars, scanVars, resVars, rankVars, srvVars, buildVars,
              pageVars>>
BuildFrame ==
  UNCHANGED <<watchVars, scanVars, resVars, rankVars, launchVars, srvVars,
              pageVars>>
ServerFrame ==
  UNCHANGED <<watchVars, scanVars, resVars, rankVars, buildVars, pageVars>>
PageFrame ==
  UNCHANGED <<watchVars, scanVars, rankVars, launchVars, srvVars, buildVars,
              lastQuery, lastResult, hAt>>

(***************************************************************************)
(* Part 1.  startScanWatch (src/src/node/file-opener.ts)                   *)
(***************************************************************************)

\* setTimeout(() => runScan(reason), 500)
DEBOUNCE_MS == 500
\* setInterval(() => runScan('poll'), 5000)
POLL_MS == 5000

\* Granularity of time: the quiet window is cut into this many ticks.
TicksPerWindow == 2
Quantum == DEBOUNCE_MS \div TicksPerWindow
\* Cap of the subprocess counter (the guard never blocks the code as written).
MaxProcs == 2

\* "no armed timeout"
NoTimer == -1


\* State right after startScanWatch() returned: runScan('initial') has
\* spawned the first scan; the watchers are attached, or the poll interval
\* is armed when attaching one of them threw.
WatchInit ==
  /\ watchMode \in {"watch", "poll"}
  /\ scanRunning = TRUE
  /\ scanQueued = FALSE
  /\ timer = NoTimer
  /\ pollLeft = IF watchMode = "poll" THEN POLL_MS ELSE NoTimer
  /\ procs = 1
  /\ lastCode = -1
  /\ hTrack = "off"
  /\ hStarted = 0
  /\ hPending = FALSE
  /\ hSince = 0
  /\ hDelay = -1
  /\ hRearmed = FALSE
  /\ hFires = 0
  /\ hBurst = 0
  /\ hUnserved = FALSE

\* const scheduleScan = (reason) => { if (timer) clearTimeout(timer);
\*                                    timer = setTimeout(..., 500); }
\* Faulty variant: a throttle, an armed timeout is left as it is.
ScheduleScan_Throttle ==
  timer' = IF timer = NoTimer THEN DEBOUNCE_MS ELSE timer

ScheduleScan ==
  timer' = DEBOUNCE_MS

\* const runScan = (reason) => { if (scanRunning) { scanQueued = true; return }
\*                               scanRunning = true; spawn(...) }
\* Faulty variant: the in-flight guard is missing.
RunScan_NoGuard ==
  /\ procs < MaxProcs
  /\ scanRunning' = TRUE
  /\ procs' = procs + 1
  /\ UNCHANGED scanQueued

RunScan ==
  IF scanRunning
    THEN /\ scanQueued' = TRUE
         /\ UNCHANGED <<scanRunning, procs>>
    ELSE /\ procs < MaxProcs
         /\ scanRunning' = TRUE
         /\ procs' = procs + 1
         /\ UNCHANGED scanQueued

\* scanProcess.on('close', (code) => { scanRunning = false; ...
\*   if (scanQueued) { scanQueued = false; scheduleScan('queued') } })
\* Faulty variant: the queued request is forgotten, nothing is rescheduled.
OnClose_DropsQueued ==
  /\ scanRunning' = FALSE
  /\ scanQueued' = FALSE
  /\ UNCHANGED timer

\* Faulty variant: the pending flag is not cleared.
OnClose_KeepQueued ==
  /\ scanRunning' = FALSE
  /\ IF scanQueued
       THEN /\ UNCHANGED scanQueued
            /\ ScheduleScan
       ELSE UNCHANGED <<scanQueued, timer>>

OnClose ==
  /\ scanRunning' = FALSE
  /\ IF scanQueued
       THEN /\ scanQueued' = FALSE
            /\ ScheduleScan
       ELSE UNCHANGED <<scanQueued, timer>>

\* History of "scans started since the tracked close": a spawn is a step
\* that raises procs.
StartedAfter == IF procs' > procs /\ hTrack = "on"
                  THEN Min(hStarted + 1, 2) ELSE hStarted

\* fs.watch callback: scheduleScan(detail)
FsNotify ==
  /\ watchMode = "watch"
  /\ ScheduleScan
  /\ hTrack' = "off"
  /\ hStarted' = 0
  /\ hPending' = TRUE
  /\ hSince' = 0
  /\ hDelay' = -1
  /\ hRearmed' = FALSE
  /\ hFires' = 0
  /\ hBurst' = IF hPending THEN Min(hBurst + 1, 2) ELSE 1
  /\ hUnserved' = TRUE
  /\ UNCHANGED <<watchMode, scanRunning, scanQueued, pollLeft, procs, lastCode>>
  /\ WatchFrame

\* The debounce timeout expires: runScan(reason)
TimerFire ==
  /\ timer = 0
  /\ timer' = NoTimer
  /\ RunScan
  /\ hStarted' = StartedAfter
  /\ hFires' = Min(hFires + 1, 2)
  /\ hPending' = FALSE
  /\ hDelay' = IF hPending THEN hSince ELSE hDelay
  /\ hSince' = 0
  /\ hUnserved' = (hUnserved /\ procs' = procs)
  /\ UNCHANGED <<watchMode, pollLeft, lastCode, hTrack, hRearmed, hBurst>>
  /\ WatchFrame

\* The poll interval expires: runScan('poll')
PollTick ==
  /\ watchMode = "poll"
  /\ pollLeft = 0
  /\ pollLeft' = POLL_MS
  /\ RunScan
  /\ hTrack' = "off"
  /\ hStarted' = 0
  /\ hUnserved' = (hUnserved /\ procs' = procs)
  /\ UNCHANGED <<watchMode, timer, lastCode, hPending, hSince, hDelay,
                 hRearmed, hFires, hBurst>>
  /\ WatchFrame

\* A scan subprocess ends and its 'close' event is delivered.
ScanClose ==
  /\ procs > 0
  /\ \E code \in {0, 1} : lastCode' = code
  /\ procs' = procs - 1
  /\ OnClose
  /\ hTrack' = IF scanQueued THEN "on" ELSE hTrack
  /\ hStarted' = IF scanQueued /\ hTrack # "on" THEN 0 ELSE hStarted
  /\ hRearmed' = IF scanQueued THEN (hRearmed \/ hPending) ELSE hRearmed
  /\ hFires' = IF scanQueued THEN 0 ELSE hFires
  /\ UNCHANGED <<watchMode, pollLeft, hPending, hSince, hDelay, hBurst,
                 hUnserved>>
  /\ WatchFrame

\* Time passes, never beyond the deadline of an armed timeout or interval.
Tick ==
  /\ timer # 0
  /\ pollLeft # 0
  /\ LET d1 == IF timer = NoTimer THEN Quantum ELSE Min(Quantum, timer)
         d  == IF pollLeft = NoTimer THEN d1 ELSE Min(d1, pollLeft)
     IN  /\ timer' = IF timer = NoTimer THEN NoTimer ELSE timer - d
         /\ pollLeft' = IF pollLeft = NoTimer THEN NoTimer ELSE pollLeft - d
         /\ hSince' = IF hPending THEN Min(hSince + d, 2 * DEBOUNCE_MS) ELSE 0
  /\ UNCHANGED <<watchMode, scanRunning, scanQueued, procs, lastCode, hTrack,
                 hStarted, hPending, hDelay, hRearmed, hFires, hBurst,
                 hUnserved>>
  /\ WatchFrame

WatchNext ==
  \/ FsNotify
  \/ TimerFire
  \/ PollTick
  \/ ScanClose
  \/ Tick


(***************************************************************************)
(* Part 2.  cmp-scan main (src/src/node/cmp-scan.ts) over the file system, *)
(* with the developer editing files and the server streaming the index.    *)
(***************************************************************************)

\* The candidate source files (matched by the include globs, not excluded),
\* in the order project.getSourceFiles() returns them.
PathOrder == <<"p1", "p2">>
Paths == {PathOrder[i] : i \in 1..Len(PathOrder)}

\* A class declaration with a @Component decorator: its name and templateUrl
\* ("" when the decorator has none).
Cls(n, t) == [name |-> n, tpl |-> t]
\* File texts the developer switches between, as the classes they declare.
ScanContents == {<<Cls("A", "")>>, <<Cls("B", "t.html")>>}

\* Wall clock of the file system: edits stamp files with increasing mtimes.
MaxClock == 2
\* Scanner runs per behaviour.
MaxRuns == 2

\* A key that is not in a Record<string, number> / a file that is not there.
Absent == -1
NoFileRec == [exists |-> FALSE, content |-> <<>>, mtime |-> Absent]

\* ---- JavaScript objects as insertion-ordered lists of entries ----
ObjHas(o, k) == \E i \in 1..Len(o) : o[i].k = k
ObjGet(o, k) == o[CHOOSE i \in 1..Len(o) : o[i].k = k].v
ObjSet(o, k, v) ==
  IF ObjHas(o, k)
    THEN [i \in 1..Len(o) |-> IF o[i].k = k THEN [k |-> k, v |-> v] ELSE o[i]]
    ELSE Append(o, [k |-> k, v |-> v])
ObjKeys(o) == [i \in 1..Len(o) |-> o[i].k]
ObjValues(o) == [i \in 1..Len(o) |-> o[i].v]
SeqHas(q, x) == \E i \in 1..Len(q) : q[i] = x

\* ---- the persisted files ----
NoIndex == [kind |-> "none", generatedAt |-> 0, detailByFilePath |-> <<>>,
            filePathsByClassName |-> <<>>]
\* component-map.json after open(..., 'w') truncated it and before the data
\* is written: fs.writeFileSync replaces the file in place.
PartialIndex == [kind |-> "partial", generatedAt |-> 0,
                 detailByFilePath |-> <<>>, filePathsByClassName |-> <<>>]
EmptyStats == [p \in Paths |-> Absent]
NoCache == [kind |-> "none", m |-> EmptyStats]
CorruptCache == [kind |-> "corrupt", m |-> EmptyStats]

histVars == <<hCacheAtStart, hIndexAtStart, hIndexDone, hOutcome, hPrev,
              hIdxExisted, hEnvSince, hPrevOk>>

\* ---- pure parts of main() ----

\* project.addSourceFilesAtPaths + getSourceFiles: the files that exist, with
\* the text they have now.
RECURSIVE LoadFrom(_, _)
LoadFrom(fs, i) ==
  IF i > Len(PathOrder) THEN <<>>
  ELSE LET p == PathOrder[i]
       IN  (IF fs[p].exists THEN <<[path |-> p, classes |-> fs[p].content]>>
                            ELSE <<>>) \o LoadFrom(fs, i + 1)
LoadSourceFiles(fs) == LoadFrom(fs, 1)

FilePaths(sfs) == [i \in 1..Len(sfs) |-> sfs[i].path]

\* function getFileStats(filePaths): statSync per path, a vanished file is
\* left out.
GetFileStats(fps, fs) ==
  [p \in Paths |-> IF SeqHas(fps, p) /\ fs[p].exists THEN fs[p].mtime ELSE Absent]

\* function loadCache(): {} when the file is missing or does not parse.
LoadCache(cf) == IF cf.kind = "ok" THEN cf.m ELSE EmptyStats

\* !previousCache[p] : undefined and 0 are both falsy.
Falsy(v) == v = Absent \/ v = 0
CachedPaths(prev) == {p \in Paths : prev[p] # Absent}

\* Faulty variant: only a missing entry counts, a changed timestamp does
\* not.
HasChanges_OnlyMissing(fps, prev, cur) ==
  \E i \in 1..Len(fps) : Falsy(prev[fps[i]])

HasChanges(fps, prev, cur) ==
  \E i \in 1..Len(fps) : Falsy(prev[fps[i]]) \/ prev[fps[i]] # cur[fps[i]]

HasNewOrDeletedFiles(fps, prev, cur) ==
  \/ Len(fps) # Cardinality(CachedPaths(prev))
  \/ \E i \in 1..Len(fps) : Falsy(prev[fps[i]])
  \/ \E p \in CachedPaths(prev) : Falsy(cur[p])

\* Faulty variant: the existence of the index file is not looked at.
ShouldSkip_NoExists(fps, prev, cur, outExists) ==
  ~HasChanges(fps, prev, cur) /\ ~HasNewOrDeletedFiles(fps, prev, cur)

\* if (!hasChanges && !hasNewOrDeletedFiles && fs.existsSync(outFile)) exit(0)
ShouldSkip(fps, prev, cur, outExists) ==
  ~HasChanges(fps, prev, cur) /\ ~HasNewOrDeletedFiles(fps, prev, cur)
    /\ outExists

\* Faulty variant: the record is stored under the class name, not the path.
AddClass_KeyedByName(acc, path, cls) ==
  LET info == [className |-> cls.name, filePath |-> path,
               templateUrl |-> cls.tpl]
      d1 == ObjSet(acc.detailByFilePath, cls.name, info)
      b0 == acc.filePathsByClassName
      b1 == IF ObjHas(b0, cls.name) THEN b0 ELSE ObjSet(b0, cls.name, <<>>)
      l1 == ObjGet(b1, cls.name)
      b2 == IF SeqHas(l1, path) THEN b1
            ELSE ObjSet(b1, cls.name, Append(l1, path))
  IN  [detailByFilePath |-> d1, filePathsByClassName |-> b2]

\* Faulty variant: the path is pushed without the includes() test.
AddClass_NoDedup(acc, path, cls) ==
  LET info == [className |-> cls.name, filePath |-> path,
               templateUrl |-> cls.tpl]
      d1 == ObjSet(acc.detailByFilePath, path, info)
      b0 == acc.filePathsByClassName
      b1 == IF ObjHas(b0, cls.name) THEN b0 ELSE ObjSet(b0, cls.name, <<>>)
      b2 == ObjSet(b1, cls.name, Append(ObjGet(b1, cls.name), path))
  IN  [detailByFilePath |-> d1, filePathsByClassName |-> b2]

\* The body of the loop over cls of sf.getClasses().
AddClass(acc, path, cls) ==
  LET info == [className |-> cls.name, filePath |-> path,
               templateUrl |-> cls.tpl]
      d1 == ObjSet(acc.detailByFilePath, path, info)
      b0 == acc.filePathsByClassName
      b1 == IF ObjHas(b0, cls.name) THEN b0 ELSE ObjSet(b0, cls.name, <<>>)
      l1 == ObjGet(b1, cls.name)
      b2 == IF SeqHas(l1, path) THEN b1
            ELSE ObjSet(b1, cls.name, Append(l1, path))
  IN  [detailByFilePath |-> d1, filePathsByClassName |-> b2]

RECURSIVE AddClasses(_, _, _, _)
AddClasses(acc, path, classes, j) ==
  IF j > Len(classes) THEN acc
  ELSE AddClasses(AddClass(acc, path, classes[j]), path, classes, j + 1)

RECURSIVE BuildFrom(_, _, _)
BuildFrom(acc, sfs, i) ==
  IF i > Len(sfs) THEN acc
  ELSE BuildFrom(AddClasses(acc, sfs[i].path, sfs[i].classes, 1), sfs, i + 1)

\* The loop has no try/catch: a throw for one file leaves the loop and
\* rejects main().
LoopThrows(sfs, bad) == \E i \in 1..Len(sfs) : sfs[i].path \in bad

\* for (const sf of sourceFiles) { ... } ; const out: MapFile = { ... }
BuildMap(sfs, now) ==
  LET r == BuildFrom([detailByFilePath |-> <<>>,
                      filePathsByClassName |-> <<>>], sfs, 1)
  IN  [kind |-> "map", generatedAt |-> now,
       detailByFilePath |-> r.detailByFilePath,
       filePathsByClassName |-> r.filePathsByClassName]

\* Faulty variant: the cache is committed before the index is written.
NextStep_CacheFirst(at, ok) ==
  CASE at = "decide" -> IF ok THEN "exit0" ELSE "cache"
    [] at = "cache"  -> IF ok THEN "open" ELSE "exit1"
    [] at = "open"   -> IF ok THEN "write" ELSE "exit1"
    [] at = "write"  -> IF ok THEN "exit0" ELSE "exit1"

\* The order of main() from the decision on: exit(0) when clean; else build,
\* fs.writeFileSync(outFile, ...), saveCache(currentStats); a throw anywhere
\* rejects main() and the catch handler exits 1.
NextStep(at, ok) ==
  CASE at = "decide" -> IF ok THEN "exit0" ELSE "open"
    [] at = "open"   -> IF ok THEN "write" ELSE "exit1"
    [] at = "write"  -> IF ok THEN "cache" ELSE "exit1"
    [] at = "cache"  -> IF ok THEN "exit0" ELSE "exit1"

\* The trees the scanner may find: each candidate file missing, or there
\* with one of the texts and an mtime of ms.
TreeStates(ms) ==
  [Paths -> {NoFileRec} \cup
              [exists : {TRUE}, content : ScanContents, mtime : ms]]

\* No file has been touched for the experiment.
NoTouch ==
  [phase |-> "none", path |-> "", mtime |-> Absent, before |-> NoIndex,
   run |-> 0]

\* The history variables before any run.
HistInit ==
  /\ hCacheAtStart = cacheFile
  /\ hIndexAtStart = indexFile
  /\ hIndexDone = FALSE
  /\ hOutcome = "none"
  /\ hPrev = EmptyStats
  /\ hIdxExisted = FALSE
  /\ hEnvSince = TRUE
  /\ hPrevOk = FALSE
  /\ hTouch = NoTouch

\* A fresh checkout: files stamped with the current time, nothing persisted.
ScanInit ==
  /\ files \in TreeStates({1})
  /\ clock = 1
  /\ cacheFile = NoCache
  /\ indexFile = NoIndex
  /\ pc = "idle"
  /\ sfiles = <<>>
  /\ curStats = EmptyStats
  /\ runId = 0
  /\ served = "none"
  /\ broken = {}
  /\ HistInit

\* A tree that has been worked on before: files stamped with the epoch (0)
\* or a later time, a cache left by an earlier run (or none), and the index
\* of the tree (or none, after .open-in-editor/component-map.json was
\* removed).
SeqInit ==
  /\ files \in TreeStates({0, 1})
  /\ clock = 1
  /\ cacheFile \in {NoCache} \cup
       {[kind |-> "ok", m |-> f] : f \in [Paths -> {Absent, 0, 1}]}
  /\ indexFile \in {NoIndex, BuildMap(LoadSourceFiles(files), 0)}
  /\ pc = "idle"
  /\ sfiles = <<>>
  /\ curStats = EmptyStats
  /\ runId = 0
  /\ served = "none"
  /\ broken = {}
  /\ HistInit

\* A fresh checkout in which the extraction of some files throws.
FailInit ==
  /\ files \in TreeStates({1})
  /\ clock = 1
  /\ cacheFile = NoCache
  /\ indexFile = NoIndex
  /\ pc = "idle"
  /\ sfiles = <<>>
  /\ curStats = EmptyStats
  /\ runId = 0
  /\ served = "none"
  /\ broken \in SUBSET Paths
  /\ HistInit

\* A tree whose last scan went well: the cache holds the timestamps of the
\* files and the index their records.
TouchInit ==
  /\ SeqInit
  /\ \E p \in Paths : files[p].exists
  /\ cacheFile = [kind |-> "ok",
                  m |-> GetFileStats(FilePaths(LoadSourceFiles(files)), files)]
  /\ indexFile = BuildMap(LoadSourceFiles(files), 0)

\* ---- the scanner subprocess, step by step ----

\* The process starts and loads the source files (lines 89-137).
ScanLoad ==
  /\ pc = "idle"
  /\ runId < MaxRuns
  /\ runId' = runId + 1
  /\ sfiles' = LoadSourceFiles(files)
  /\ pc' = "stat"
  /\ hCacheAtStart' = cacheFile
  /\ hIndexAtStart' = indexFile
  /\ hIndexDone' = FALSE
  /\ hPrevOk' = (hOutcome \in {"skipped", "saved"} /\ ~hEnvSince)
  /\ hOutcome' = "none"
  /\ hEnvSince' = FALSE
  /\ UNCHANGED <<files, clock, cacheFile, indexFile, curStats, served, hPrev,
                 hIdxExisted>>
  /\ ScanFrame

\* const currentStats = getFileStats(filePaths)
ScanStat ==
  /\ pc = "stat"
  /\ curStats' = GetFileStats(FilePaths(sfiles), files)
  /\ pc' = "decide"
  /\ UNCHANGED <<files, clock, cacheFile, indexFile, sfiles, runId, served,
                 histVars>>
  /\ ScanFrame

\* loadCache(), hasChanges, hasNewOrDeletedFiles and the early exit; then
\* the build loop, which ends main() when a call in it throws.
ScanDecide ==
  /\ pc = "decide"
  /\ LET prev == LoadCache(cacheFile)
         outExists == indexFile.kind # "none"
         skip == ShouldSkip(FilePaths(sfiles), prev, curStats, outExists)
         throws == ~skip /\ LoopThrows(sfiles, broken)
     IN  /\ pc' = IF throws THEN "exit1" ELSE NextStep("decide", skip)
         /\ hOutcome' = IF skip THEN "skipped"
                         ELSE IF throws THEN "buildFailed" ELSE "rebuild"
         /\ hPrev' = prev
         /\ hIdxExisted' = outExists
  /\ UNCHANGED <<files, clock, cacheFile, indexFile, sfiles, curStats, runId,
                 served, hCacheAtStart, hIndexAtStart, hIndexDone, hEnvSince,
                 hPrevOk>>
  /\ ScanFrame

\* fs.writeFileSync(outFile, ...), first half: the file is opened with 'w'
\* and is empty from then on; or the open throws.
ScanOpenIndex ==
  /\ pc = "open"
  /\ \E ok \in BOOLEAN :
       /\ pc' = NextStep("open", ok)
       /\ indexFile' = IF ok THEN PartialIndex ELSE indexFile
       /\ hOutcome' = IF ok THEN hOutcome ELSE "indexFailed"
  /\ UNCHANGED <<files, clock, cacheFile, sfiles, curStats, runId, served,
                 hCacheAtStart, hIndexAtStart, hIndexDone, hPrev, hIdxExisted,
                 hEnvSince, hPrevOk>>
  /\ ScanFrame

\* fs.writeFileSync(outFile, ...), second half: the data is written and the
\* file closed; or the write throws and leaves the file short.
ScanWriteIndex ==
  /\ pc = "write"
  /\ \E ok \in BOOLEAN :
       /\ pc' = NextStep("write", ok)
       /\ indexFile' = IF ok THEN BuildMap(sfiles, runId) ELSE indexFile
       /\ hIndexDone' = ok
       /\ hOutcome' = IF ok THEN hOutcome ELSE "indexFailed"
  /\ UNCHANGED <<files, clock, cacheFile, sfiles, curStats, runId, served,
                 hCacheAtStart, hIndexAtStart, hPrev, hIdxExisted, hEnvSince,
                 hPrevOk>>
  /\ ScanFrame

\* saveCache(currentStats); a failing write leaves the old file or a short one.
ScanSaveCache ==
  /\ pc = "cache"
  /\ \/ /\ cacheFile' = [kind |-> "ok", m |-> curStats]
        /\ pc' = NextStep("cache", TRUE)
        /\ hOutcome' = "saved"
     \/ /\ cacheFile' \in {cacheFile, CorruptCache}
        /\ pc' = NextStep("cache", FALSE)
        /\ hOutcome' = "cacheFailed"
  /\ UNCHANGED <<files, clock, indexFile, sfiles, curStats, runId, served,
                 hCacheAtStart, hIndexAtStart, hIndexDone, hPrev, hIdxExisted,
                 hEnvSince, hPrevOk>>
  /\ ScanFrame

\* process.exit(0) / process.exit(1)
ScanExit ==
  /\ pc \in {"exit0", "exit1"}
  /\ pc' = "idle"
  /\ UNCHANGED <<files, clock, cacheFile, indexFile, sfiles, curStats, runId,
                 served, histVars>>
  /\ ScanFrame

\* ---- the environment ----

\* The developer saves an existing file (possibly with the same text).
EnvEdit ==
  /\ clock < MaxClock
  /\ \E p \in Paths, c \in ScanContents :
       /\ files[p].exists
       /\ files' = [files EXCEPT ![p] = [exists |-> TRUE, content |-> c,
                                         mtime |-> clock + 1]]
  /\ clock' = clock + 1
  /\ hEnvSince' = TRUE
  /\ UNCHANGED <<cacheFile, indexFile, pc, sfiles, curStats, runId, served,
                 hCacheAtStart, hIndexAtStart, hIndexDone, hOutcome, hPrev,
                 hIdxExisted, hPrevOk>>
  /\ ScanFrame

\* The developer adds a file.
EnvCreate ==
  /\ clock < MaxClock
  /\ \E p \in Paths, c \in ScanContents :
       /\ ~files[p].exists
       /\ files' = [files EXCEPT ![p] = [exists |-> TRUE, content |-> c,
                                         mtime |-> clock + 1]]
  /\ clock' = clock + 1
  /\ hEnvSince' = TRUE
  /\ UNCHANGED <<cacheFile, indexFile, pc, sfiles, curStats, runId, served,
                 hCacheAtStart, hIndexAtStart, hIndexDone, hOutcome, hPrev,
                 hIdxExisted, hPrevOk>>
  /\ ScanFrame

\* The developer removes a file.
EnvDelete ==
  /\ \E p \in Paths :
       /\ files[p].exists
       /\ files' = [files EXCEPT ![p] = NoFileRec]
  /\ hEnvSince' = TRUE
  /\ UNCHANGED <<clock, cacheFile, indexFile, pc, sfiles, curStats, runId,
                 served, hCacheAtStart, hIndexAtStart, hIndexDone, hOutcome,
                 hPrev, hIdxExisted, hPrevOk>>
  /\ ScanFrame

\* Faulty variant: the endpoint opens the index file for writing, which
\* truncates it.
ServeMap_OpensForWrite ==
  /\ served' = IF indexFile.kind = "none" THEN "404" ELSE indexFile.kind
  /\ indexFile' = IF indexFile.kind = "none" THEN indexFile ELSE PartialIndex
  /\ UNCHANGED <<files, clock, cacheFile, pc, sfiles, curStats, runId,
                 histVars>>
  /\ ScanFrame

\* `touch file`: the modification time of one file changes, its text does
\* not.  No scan is running.
EnvTouch ==
  /\ pc = "idle"
  /\ hTouch.phase = "none"
  /\ clock < MaxClock
  /\ \E p \in Paths :
       /\ files[p].exists
       /\ files' = [files EXCEPT ![p].mtime = clock + 1]
       /\ hTouch' = [phase |-> "touched", path |-> p, mtime |-> files[p].mtime,
                     before |-> indexFile, run |-> runId]
  /\ clock' = clock + 1
  /\ hEnvSince' = TRUE
  /\ UNCHANGED <<cacheFile, indexFile, pc, sfiles, curStats, runId, served,
                 hCacheAtStart, hIndexAtStart, hIndexDone, hOutcome, hPrev,
                 hIdxExisted, hPrevOk>>
  /\ TouchFrame

\* The touched file gets its old modification time back, after a scan has
\* rebuilt and saved.
EnvRevert ==
  /\ pc = "idle"
  /\ hTouch.phase = "touched"
  /\ runId > hTouch.run
  /\ hOutcome = "saved"
  /\ files' = [files EXCEPT ![hTouch.path].mtime = hTouch.mtime]
  /\ hTouch' = [hTouch EXCEPT !.phase = "reverted", !.run = runId]
  /\ hEnvSince' = TRUE
  /\ UNCHANGED <<clock, cacheFile, indexFile, pc, sfiles, curStats, runId,
                 served, hCacheAtStart, hIndexAtStart, hIndexDone, hOutcome,
                 hPrev, hIdxExisted, hPrevOk>>
  /\ TouchFrame

\* GET /__cmp-map: 404 when the file is missing, else its bytes as they are.
ServeMap ==
  /\ served' = IF indexFile.kind = "none" THEN "404" ELSE indexFile.kind
  /\ UNCHANGED <<files, clock, cacheFile, indexFile, pc, sfiles, curStats,
                 runId, histVars>>
  /\ ScanFrame

ScanNext ==
  \/ ScanLoad
  \/ ScanStat
  \/ ScanDecide
  \/ ScanOpenIndex
  \/ ScanWriteIndex
  \/ ScanSaveCache
  \/ ScanExit
  \/ EnvEdit
  \/ EnvCreate
  \/ EnvDelete

\* Runs of the scanner over a tree nobody edits.
RunNext ==
  \/ ScanLoad
  \/ ScanStat
  \/ ScanDecide
  \/ ScanOpenIndex
  \/ ScanWriteIndex
  \/ ScanSaveCache
  \/ ScanExit

\* Runs of the scanner one after the other, a file being touched and
\* reverted between runs.
TouchNext ==
  \/ ScanLoad
  \/ ScanStat
  \/ ScanDecide
  \/ ScanOpenIndex
  \/ ScanWriteIndex
  \/ ScanSaveCache
  \/ ScanExit
  \/ EnvTouch
  \/ EnvRevert

\* Runs of the scanner one after the other over a tree that only loses
\* files, with the server answering GET /__cmp-map at any moment.
SeqNext ==
  \/ ScanLoad
  \/ ScanStat
  \/ ScanDecide
  \/ ScanOpenIndex
  \/ ScanWriteIndex
  \/ ScanSaveCache
  \/ ScanExit
  \/ EnvDelete
  \/ ServeMap

(***************************************************************************)
(* Part 3.  The identity resolver (src/src/browser/index.ts).  Strings     *)
(* are sequences of characters, so that split, includes, toLowerCase and   *)
(* replace(/^_+/, '') are computed, not assumed.                           *)
(***************************************************************************)

UpperChars == <<"A", "B", "C", "D", "E", "F", "G", "H", "I", "J", "K", "L",
                "M", "N", "O", "P", "Q", "R", "S", "T", "U", "V", "W", "X",
                "Y", "Z">>
LowerChars == <<"a", "b", "c", "d", "e", "f", "g", "h", "i", "j", "k", "l",
                "m", "n", "o", "p", "q", "r", "s", "t", "u", "v", "w", "x",
                "y", "z">>
\* String.prototype.toLowerCase
LowerChar(c) ==
  IF \E i \in 1..Len(UpperChars) : UpperChars[i] = c
    THEN LowerChars[CHOOSE i \in 1..Len(UpperChars) : UpperChars[i] = c]
    ELSE c
ToLowerCase(str) == [i \in 1..Len(str) |-> LowerChar(str[i])]

\* String.prototype.includes
StrIncludes(str, pat) ==
  \E i \in 0..(Len(str) - Len(pat)) :
     \A j \in 1..Len(pat) : str[i + j] = pat[j]

\* str.split('/').filter(Boolean)
RECURSIVE SplitFrom(_, _, _)
SplitFrom(str, i, cur) ==
  IF i > Len(str) THEN (IF cur = <<>> THEN <<>> ELSE <<cur>>)
  ELSE IF str[i] = "/"
         THEN (IF cur = <<>> THEN <<>> ELSE <<cur>>) \o SplitFrom(str, i + 1, <<>>)
         ELSE SplitFrom(str, i + 1, Append(cur, str[i]))
Segments(str) == SplitFrom(str, 1, <<>>)

\* className.replace(/^_+/, '')
RECURSIVE StripUnderscores(_)
StripUnderscores(str) ==
  IF str # <<>> /\ Head(str) = "_" THEN StripUnderscores(Tail(str)) ELSE str

\* Faulty variant: the last segment is compared case-sensitively.
CalculatePathRelevance_CaseSensitive(filePath, currentUrl) ==
  LET urlSegments == Segments(currentUrl)
      fileSegments == Segments(filePath)
      n == Len(urlSegments)
      segHits == Cardinality({i \in 1..n : SeqHas(fileSegments, urlSegments[i])})
      pairHits == Cardinality({i \in 1..(n - 1) :
                     StrIncludes(filePath,
                                 urlSegments[i] \o <<"/">> \o urlSegments[i + 1])})
      lastHit == n > 0 /\ StrIncludes(filePath, urlSegments[n])
  IN  10 * segHits + 20 * pairHits + (IF lastHit THEN 30 ELSE 0)

\* function calculatePathRelevance(filePath, currentUrl)
CalculatePathRelevance(filePath, currentUrl) ==
  LET urlSegments == Segments(currentUrl)
      fileSegments == Segments(filePath)
      n == Len(urlSegments)
      segHits == Cardinality({i \in 1..n : SeqHas(fileSegments, urlSegments[i])})
      pairHits == Cardinality({i \in 1..(n - 1) :
                     StrIncludes(filePath,
                                 urlSegments[i] \o <<"/">> \o urlSegments[i + 1])})
      lastHit == n > 0 /\ StrIncludes(ToLowerCase(filePath),
                                      ToLowerCase(urlSegments[n]))
  IN  10 * segHits + 20 * pairHits + (IF lastHit THEN 30 ELSE 0)

\* The loop of selectBestMatchingFile: best = [match, score] so far.
RECURSIVE BestFrom_LastWins(_, _, _, _)
BestFrom_LastWins(cands, url, i, best) ==
  IF i > Len(cands) THEN best.match
  ELSE LET score == CalculatePathRelevance(cands[i], url)
       IN  BestFrom_LastWins(cands, url, i + 1,
             IF score >= best.score THEN [match |-> cands[i], score |-> score]
                                    ELSE best)

RECURSIVE BestFrom(_, _, _, _)
BestFrom(cands, url, i, best) ==
  IF i > Len(cands) THEN best.match
  ELSE LET score == CalculatePathRelevance(cands[i], url)
       IN  BestFrom(cands, url, i + 1,
             IF score > best.score THEN [match |-> cands[i], score |-> score]
                                   ELSE best)

\* Faulty variant: a later candidate with the same score replaces the earlier one.
SelectBestMatchingFile_LastWins(cands, url) ==
  IF Len(cands) = 1 THEN cands[1]
  ELSE BestFrom_LastWins(cands, url, 1, [match |-> cands[1], score |-> -1])

\* function selectBestMatchingFile(candidates), url = window.location.pathname
SelectBestMatchingFile(cands, url) ==
  IF Len(cands) = 1 THEN cands[1]
  ELSE BestFrom(cands, url, 1, [match |-> cands[1], score |-> -1])

\* Faulty variant: the stripped name is tried before the name as given.
GetClassNameCandidates_StrippedFirst(className) ==
  LET trimmed == StripUnderscores(className)
      first == IF trimmed = <<>> THEN <<>> ELSE <<trimmed>>
  IN  IF className = <<>> \/ SeqHas(first, className) THEN first
      ELSE Append(first, className)

\* Faulty variant: only one leading underscore is removed.
GetClassNameCandidates_StripOne(className) ==
  LET first == IF className = <<>> THEN <<>> ELSE <<className>>
      trimmed == IF className # <<>> /\ Head(className) = "_"
                   THEN Tail(className) ELSE className
  IN  IF trimmed = <<>> \/ SeqHas(first, trimmed) THEN first
      ELSE Append(first, trimmed)

\* function getClassNameCandidates(className): push skips '' and duplicates.
GetClassNameCandidates(className) ==
  LET first == IF className = <<>> THEN <<>> ELSE <<className>>
      trimmed == StripUnderscores(className)
  IN  IF trimmed = <<>> \/ SeqHas(first, trimmed) THEN first
      ELSE Append(first, trimmed)

NullInfo == [className |-> <<>>, filePath |-> <<>>, templateUrl |-> ""]
NoResult == [found |-> FALSE, info |-> NullInfo, consulted |-> <<>>,
             list |-> <<>>]

\* The loop of getComponentInfoByClassName over the candidate names; the
\* names whose list was handed to selectBestMatchingFile are recorded.
RECURSIVE ResolveFrom(_, _, _, _, _)
ResolveFrom(map, url, names, i, consulted) ==
  IF i > Len(names) THEN [NoResult EXCEPT !.consulted = consulted]
  ELSE LET cands == IF ObjHas(map.filePathsByClassName, names[i])
                      THEN ObjGet(map.filePathsByClassName, names[i])
                      ELSE <<>>
       IN  IF Len(cands) = 0
             THEN ResolveFrom(map, url, names, i + 1, consulted)
             ELSE LET filePath == SelectBestMatchingFile(cands, url)
                      seen == Append(consulted, names[i])
                  IN  IF ObjHas(map.detailByFilePath, filePath)
                        THEN [found |-> TRUE,
                              info |-> ObjGet(map.detailByFilePath, filePath),
                              consulted |-> seen, list |-> cands]
                        ELSE ResolveFrom(map, url, names, i + 1, seen)

\* function getComponentInfoByClassName(className)
GetComponentInfoByClassName(map, url, className) ==
  IF map.isNull THEN NoResult
  ELSE ResolveFrom(map, url, GetClassNameCandidates(className), 1, <<>>)

\* The loop of normalizeMap over Object.values(map.detailByFilePath).
RECURSIVE RebuildFrom(_, _, _)
RebuildFrom(infos, i, rebuilt) ==
  IF i > Len(infos) THEN rebuilt
  ELSE LET info == infos[i]
           r1 == IF ObjHas(rebuilt, info.className) THEN rebuilt
                 ELSE ObjSet(rebuilt, info.className, <<>>)
           l1 == ObjGet(r1, info.className)
           r2 == IF SeqHas(l1, info.filePath) THEN r1
                 ELSE ObjSet(r1, info.className, Append(l1, info.filePath))
       IN  RebuildFrom(infos, i + 1, r2)

\* function normalizeMap(map)
NormalizeMap(map) ==
  IF Len(map.filePathsByClassName) = 0
    THEN [map EXCEPT !.filePathsByClassName =
            RebuildFrom(ObjValues(map.detailByFilePath), 1, <<>>)]
    ELSE map

\* JSON.parse of the body of /__cmp-map, as a CmpMap.
ParseMap(body) ==
  [isNull |-> FALSE, detailByFilePath |-> body.detailByFilePath,
   filePathsByClassName |-> body.filePathsByClassName]

NullMap == [isNull |-> TRUE, detailByFilePath |-> <<>>,
            filePathsByClassName |-> <<>>]
NoCall == [path |-> <<>>, loaded |-> FALSE]

\* ---- inputs of the resolver ----
\* "F"
N_F == <<"F">>
\* "_F"
N_uF == <<"_", "F">>
\* "__F"
N_uuF == <<"_", "_", "F">>
\* "G"
N_G == <<"G">>
\* "__"
N_uu == <<"_", "_">>
\* "x/a/f"
P_xaf == <<"x", "/", "a", "/", "f">>
\* "y/b/f"
P_ybf == <<"y", "/", "b", "/", "f">>
\* "a/b/g"
P_abg == <<"a", "/", "b", "/", "g">>
\* "B/f"
P_Bf == <<"B", "/", "f">>
\* "/a/b"
U_ab == <<"/", "a", "/", "b">>
\* "/b"
U_b == <<"/", "b">>
\* "/"
U_root == <<"/">>
\* "a/widgets/foo.ts"
P_widgets ==
  <<"a", "/", "w", "i", "d", "g", "e", "t", "s", "/", "f", "o", "o", ".",
    "t", "s">>
\* "b/dashboard/foo.ts"
P_dashboard ==
  <<"b", "/", "d", "a", "s", "h", "b", "o", "a", "r", "d", "/", "f", "o",
    "o", ".", "t", "s">>
\* "/dashboard/settings"
U_dashboard ==
  <<"/", "d", "a", "s", "h", "b", "o", "a", "r", "d", "/", "s", "e", "t",
    "t", "i", "n", "g", "s">>

\* "Foo"
N_Foo == <<"F", "o", "o">>

RCls(n) == [name |-> n, tpl |-> ""]
\* The source files of the scanned tree, in scan order, and what a file may
\* declare (nothing: the file is not there).
ResPathOrder == <<P_xaf, P_ybf, P_abg, P_Bf>>
ResContents == {<<>>, <<RCls(N_F)>>, <<RCls(N_uF)>>, <<RCls(N_uF), RCls(N_F)>>}
NavPaths == {U_ab, U_b, U_root, U_dashboard}
QueryNames == {N_F, N_uF, N_uuF, N_G, N_uu, N_Foo}
\* Two components named Foo in two feature directories.
FooTree == <<[path |-> P_widgets, classes |-> <<RCls(N_Foo)>>],
             [path |-> P_dashboard, classes |-> <<RCls(N_Foo)>>]>>


RECURSIVE TreeFrom(_, _)
TreeFrom(f, i) ==
  IF i > Len(ResPathOrder) THEN <<>>
  ELSE (IF f[i] = <<>> THEN <<>>
        ELSE <<[path |-> ResPathOrder[i], classes |-> f[i]]>>)
       \o TreeFrom(f, i + 1)

ResolveInit ==
  /\ \/ \E f \in [1..Len(ResPathOrder) -> ResContents] :
          srcTree = TreeFrom(f, 1)
     \/ srcTree = FooTree
  /\ CMP_MAP = NullMap
  /\ locPath \in NavPaths
  /\ lastQuery = <<>>
  /\ lastResult = NoResult
  /\ hAt = NoCall

\* ensureMap: CMP_MAP = normalizeMap(JSON.parse(text)), the text being the
\* index the scanner wrote for the tree.
EnsureMap ==
  /\ CMP_MAP.isNull
  /\ CMP_MAP' = NormalizeMap(ParseMap(BuildMap(srcTree, 1)))
  /\ UNCHANGED <<srcTree, locPath, lastQuery, lastResult, hAt>>
  /\ ResFrame

\* The page navigates.
Navigate ==
  /\ \E u \in NavPaths : locPath' = u
  /\ UNCHANGED <<srcTree, CMP_MAP, lastQuery, lastResult, hAt>>
  /\ ResFrame

\* getNearestComponent: getComponentInfoByClassName(runtimeClassName)
Resolve ==
  /\ \E cn \in QueryNames :
       /\ lastQuery' = cn
       /\ lastResult' = GetComponentInfoByClassName(CMP_MAP, locPath, cn)
  /\ hAt' = [path |-> locPath, loaded |-> ~CMP_MAP.isNull]
  /\ UNCHANGED <<srcTree, CMP_MAP, locPath>>
  /\ ResFrame

\* "gone.ts": a file that was deleted after the index was written.
P_gone == <<"g", "o", "n", "e", ".", "t", "s">>

\* The bodies /__cmp-map may answer with for a tree: the index the scanner
\* wrote, the same without filePathsByClassName (absent or {}), and two
\* stale ones: a name still lists a file that has no record any more, or
\* the last name added (with the paths of its records) is not listed yet.
FetchedBodies(tree) ==
  LET ix == BuildMap(tree, 1)
      fp == ix.filePathsByClassName
  IN  {ix, [ix EXCEPT !.filePathsByClassName = <<>>]}
        \cup (IF Len(fp) = 0 THEN {}
              ELSE {[ix EXCEPT !.filePathsByClassName =
                       [fp EXCEPT ![1].v = Append(@, P_gone)]]})
        \cup (IF Len(fp) < 2 THEN {}
              ELSE {[ix EXCEPT !.filePathsByClassName =
                       SubSeq(fp, 1, Len(fp) - 1)]})

\* ensureMap over whatever body the endpoint answers with.
LoadSnapshot ==
  /\ CMP_MAP.isNull
  /\ \E body \in FetchedBodies(srcTree) :
       CMP_MAP' = NormalizeMap(ParseMap(body))
  /\ UNCHANGED <<srcTree, locPath, lastQuery, lastResult, hAt>>
  /\ ResFrame

SnapshotNext ==
  \/ LoadSnapshot
  \/ Resolve

ResolveNext ==
  \/ EnsureMap
  \/ Navigate
  \/ Resolve

(***************************************************************************)
(* Part 4.  The content search ranker, findBestLineInFile                  *)
(* (src/src/node/file-opener.ts).  The file and the search terms are       *)
(* sequences of characters; scores are kept doubled, so that weight * 1.5  *)
(* is the integer 3 * weight.                                              *)
(***************************************************************************)

\* Search terms per request.
MaxTerms == 2

\* content.split('\n')
RECURSIVE SplitLinesFrom(_, _, _)
SplitLinesFrom(str, i, cur) ==
  IF i > Len(str) THEN <<cur>>
  ELSE IF str[i] = "\n"
         THEN <<cur>> \o SplitLinesFrom(str, i + 1, <<>>)
         ELSE SplitLinesFrom(str, i + 1, Append(cur, str[i]))
SplitLines(content) == SplitLinesFrom(content, 1, <<>>)

\* String.prototype.trim (the only white space in a line here is " ")
RECURSIVE TrimStart(_)
TrimStart(str) ==
  IF str # <<>> /\ Head(str) = " " THEN TrimStart(Tail(str)) ELSE str
RECURSIVE TrimEnd(_)
TrimEnd(str) ==
  IF str # <<>> /\ str[Len(str)] = " "
    THEN TrimEnd(SubSeq(str, 1, Len(str) - 1)) ELSE str
Trim(str) == TrimEnd(TrimStart(str))

\* String.prototype.startsWith
StartsWith(str, pat) ==
  Len(pat) <= Len(str) /\ SubSeq(str, 1, Len(pat)) = pat

\* The character class of /[.*+?^${}()|[\\]\\]/g: it ends at the first "]",
\* so the expression is that class followed by a backslash and a "]".
EscapeClass == {".", "*", "+", "?", "^", "$", "{", "}", "(", ")", "|", "[",
                "\\"}
\* lowerTerm.replace(/[.*+?^${}()|[\\]\\]/g, '\\$&')
RECURSIVE EscapeFrom(_, _)
EscapeFrom(str, i) ==
  IF i > Len(str) THEN <<>>
  ELSE IF /\ i + 2 <= Len(str)
          /\ str[i] \in EscapeClass
          /\ str[i + 1] = "\\"
          /\ str[i + 2] = "]"
         THEN <<"\\", str[i], str[i + 1], str[i + 2]>> \o EscapeFrom(str, i + 3)
         ELSE <<str[i]>> \o EscapeFrom(str, i + 1)
EscapeRegExp(term) == EscapeFrom(term, 1)

\* ---- new RegExp(source).test(text), for sources made of literal
\* characters, ".", the quantifiers "*" and "+", and "\" before a
\* punctuation character; the search terms below use no other syntax ----
Quantifiers == {"*", "+"}
\* The source as atoms [kind, c, q]; ok is FALSE where the RegExp constructor
\* throws a SyntaxError (a quantifier with nothing to repeat, as after \b or
\* after another quantifier; a lone "\" at the end).
RECURSIVE ParseFrom(_, _)
ParseFrom(pat, i) ==
  IF i > Len(pat) THEN [ok |-> TRUE, atoms |-> <<>>]
  ELSE IF pat[i] \in Quantifiers THEN [ok |-> FALSE, atoms |-> <<>>]
  ELSE IF pat[i] = "\\" /\ i = Len(pat) THEN [ok |-> FALSE, atoms |-> <<>>]
  ELSE LET esc == pat[i] = "\\"
           c == IF esc THEN pat[i + 1] ELSE pat[i]
           kind == IF ~esc /\ c = "." THEN "any" ELSE "lit"
           j == i + (IF esc THEN 2 ELSE 1)
           q == IF j <= Len(pat) /\ pat[j] \in Quantifiers THEN pat[j] ELSE "1"
           rest == ParseFrom(pat, IF q = "1" THEN j ELSE j + 1)
       IN  [ok |-> rest.ok,
            atoms |-> <<[kind |-> kind, c |-> c, q |-> q]>> \o rest.atoms]

AtomMatches(atom, ch) == atom.kind = "any" \/ atom.c = ch
\* How many characters from pos on the atom matches in a row.
RECURSIVE Run(_, _, _)
Run(atom, text, pos) ==
  IF pos <= Len(text) /\ AtomMatches(atom, text[pos])
    THEN 1 + Run(atom, text, pos + 1) ELSE 0
\* The positions at which a match of atoms[a..] that starts at pos can end.
RECURSIVE Ends(_, _, _, _)
Ends(atoms, a, text, pos) ==
  IF a > Len(atoms) THEN {pos}
  ELSE LET r == Run(atoms[a], text, pos)
           lo == IF atoms[a].q = "*" THEN 0 ELSE 1
           hi == IF atoms[a].q = "1" THEN Min(r, 1) ELSE r
       IN  UNION {Ends(atoms, a + 1, text, pos + k) : k \in lo..hi}

\* \w
IsWordChar(ch) ==
  \/ \E i \in 1..Len(LowerChars) : LowerChars[i] = ch \/ UpperChars[i] = ch
  \/ ch \in {"0", "1", "2", "3", "4", "5", "6", "7", "8", "9", "_"}
\* \b before text[p] (p = Len(text) + 1: at the end)
WordBoundary(text, p) ==
  (p > 1 /\ IsWordChar(text[p - 1])) # (p <= Len(text) /\ IsWordChar(text[p]))
\* new RegExp(`\\b${source}\\b`).test(text): "throw" | "match" | "nomatch"
WordRegExpTest(source, text) ==
  LET parsed == ParseFrom(source, 1)
  IN  IF ~parsed.ok THEN "throw"
      ELSE IF \E st \in 1..(Len(text) + 1) :
                /\ WordBoundary(text, st)
                /\ \E en \in Ends(parsed.atoms, 1, text, st) :
                     WordBoundary(text, en)
             THEN "match" ELSE "nomatch"

\* The body of lines.forEach for one term and one line: what is added to
\* the (doubled) score of the line, and whether new RegExp threw; the
\* substring points are added before the RegExp is built.
LineScore(line, term, weight) ==
  LET lowerLine == ToLowerCase(line)
      lowerTerm == ToLowerCase(term)
  IN  IF ~StrIncludes(lowerLine, lowerTerm) THEN [threw |-> FALSE, add |-> 0]
      ELSE LET t == WordRegExpTest(EscapeRegExp(lowerTerm), lowerLine)
           IN  IF t = "throw" THEN [threw |-> TRUE, add |-> 4 * weight]
               ELSE [threw |-> FALSE,
                     add |-> 4 * weight
                             + (IF t = "match" THEN 6 * weight ELSE 0)
                             + (IF StartsWith(Trim(lowerLine), lowerTerm)
                                  THEN 3 * weight ELSE 0)]

\* Faulty variant: every term weighs 1.
TermWeight_Flat(count, termIndex) == 1
\* Math.max(1, searchTerms.length - termIndex)
TermWeight(count, termIndex) == Max(1, count - termIndex)

\* searchTerms.forEach over lines.forEach, step k (terms outside, lines
\* inside), until done or until new RegExp throws.
RECURSIVE ScoreFrom(_, _, _, _)
ScoreFrom(lines, terms, k, scores) ==
  IF k >= Len(terms) * Len(lines) THEN [scores |-> scores, threw |-> FALSE]
  ELSE LET termIndex == k \div Len(lines)
           lineIndex == k % Len(lines)
           r == LineScore(lines[lineIndex + 1], terms[termIndex + 1],
                          TermWeight(Len(terms), termIndex))
           s2 == [scores EXCEPT ![lineIndex + 1] = @ + r.add]
       IN  IF r.threw THEN [scores |-> s2, threw |-> TRUE]
           ELSE ScoreFrom(lines, terms, k + 1, s2)

\* scores.forEach((score, index) => { if (score > bestScore) ... })
RECURSIVE BestLineFrom(_, _, _, _)
BestLineFrom(scores, i, bestLine, bestScore) ==
  IF i > Len(scores) THEN bestLine
  ELSE IF scores[i] > bestScore
         THEN BestLineFrom(scores, i + 1, i, scores[i])
         ELSE BestLineFrom(scores, i + 1, bestLine, bestScore)

\* function findBestLineInFile(filePath, searchTerms), content being the
\* text of the file.
FindBestLineInFile(content, terms) ==
  LET lines == SplitLines(content)
      acc == ScoreFrom(lines, terms, 0, [i \in 1..Len(lines) |-> 0])
  IN  [scores |-> acc.scores, threw |-> acc.threw,
       best |-> IF acc.threw THEN 1
                ELSE BestLineFrom(acc.scores, 1, 1, 0)]

\* ---- inputs of the ranker ----
\* id="save-btn"
T_idSaveBtn ==
  <<"i", "d", "=", "\"", "s", "a", "v", "e", "-", "b", "t", "n", "\"">>
\* save
T_save ==
  <<"s", "a", "v", "e">>
\* btn
T_btn ==
  <<"b", "t", "n">>
\* a.c
T_aDotC ==
  <<"a", ".", "c">>
\* c++
T_cpp ==
  <<"c", "+", "+">>
\* *ngIf
T_starNgIf ==
  <<"*", "n", "g", "I", "f">>
\* zzz
T_zzz ==
  <<"z", "z", "z">>
\* <div>\n  save()\n<b id="save-btn">x</b>\nsaved\n</div>
F_form ==
  <<"<", "d", "i", "v", ">", "\n", " ", " ", "s", "a", "v", "e", "(",
    ")", "\n", "<", "b", " ", "i", "d", "=", "\"", "s", "a", "v", "e",
    "-", "b", "t", "n", "\"", ">", "x", "<", "/", "b", ">", "\n", "s",
    "a", "v", "e", "d", "\n", "<", "/", "d", "i", "v", ">">>
\* unsaved\nbtn x\nxa.cx abc\nSave
F_mixed ==
  <<"u", "n", "s", "a", "v", "e", "d", "\n", "b", "t", "n", " ", "x",
    "\n", "x", "a", ".", "c", "x", " ", "a", "b", "c", "\n", "S", "a",
    "v", "e">>
\* <div>\n<p *ngIf="x">\nc++ tips\nsave
F_tpl ==
  <<"<", "d", "i", "v", ">", "\n", "<", "p", " ", "*", "n", "g", "I",
    "f", "=", "\"", "x", "\"", ">", "\n", "c", "+", "+", " ", "t", "i",
    "p", "s", "\n", "s", "a", "v", "e">>
\* x\nsave\nsave\n
F_twice ==
  <<"x", "\n", "s", "a", "v", "e", "\n", "s", "a", "v", "e", "\n">>
\* 
F_empty ==
  <<>>

SearchTerms == {T_idSaveBtn, T_save, T_btn, T_aDotC, T_cpp, T_starNgIf, T_zzz}
TargetFiles == {F_form, F_mixed, F_tpl, F_twice, F_empty}
\* The lists of at most n search terms.
RECURSIVE TermLists(_)
TermLists(n) ==
  IF n = 0 THEN {<<>>}
  ELSE TermLists(n - 1)
         \cup {Append(l, t) : l \in {m \in TermLists(n - 1) : Len(m) = n - 1},
                              t \in SearchTerms}

\* A file and a list of terms, findBestLineInFile about to be called.
RankInit ==
  /\ rkContent \in TargetFiles
  /\ rkTerms \in TermLists(MaxTerms)
  /\ rkScores = <<>>
  /\ rkThrew = FALSE
  /\ rkBest = 0

\* const bestLine = findBestLineInFile(decoded, searchTerms), the call of
\* the search endpoint.
CallFindBestLine ==
  /\ rkBest = 0
  /\ LET r == FindBestLineInFile(rkContent, rkTerms)
     IN  /\ rkScores' = r.scores
         /\ rkThrew' = r.threw
         /\ rkBest' = r.best
  /\ UNCHANGED <<rkContent, rkTerms>>
  /\ RankFrame

RankNext == CallFindBestLine

(***************************************************************************)
(* Part 5.  The open dispatcher, launchInEditor                            *)
(* (src/src/node/file-opener.ts).                                          *)
(***************************************************************************)

\* The keys of COMMAND_TEMPLATES.
TemplateEditors == {"cursor", "code", "webstorm"}
\* What the configuration may name as editor; "vim" has no template.
EditorNames == TemplateEditors \cup {"vim"}
\* What a childProcess.spawn call can do: start the process; throw; or
\* return without a process (the command cannot be executed, which Node
\* reports later through the 'error' event).
SpawnOutcomes == {"started", "threw", "lost"}

\* const tryRun = (editor) => ...: the spawn call it makes, if any, and what
\* it returns.
TryRun(strategy, editor, outcome) ==
  IF editor \notin TemplateEditors THEN [ok |-> FALSE, log |-> <<>>]
  ELSE [ok |-> outcome # "threw",
        log |-> <<[strategy |-> strategy, editor |-> editor,
                   outcome |-> outcome]>>]

\* Faulty variant: a successful EDITOR_CMD does not end the chain.
LaunchInEditor_NoReturn(editorCmd, preferred, fallback, o) ==
  LET envLog == IF editorCmd
                  THEN <<[strategy |-> "override", editor |-> "EDITOR_CMD",
                          outcome |-> o.override]>>
                  ELSE <<>>
      p == TryRun("preferred", preferred, o.preferred)
      f == TryRun("fallback", fallback, o.fallback)
  IN  IF p.ok THEN [result |-> TRUE, log |-> envLog \o p.log]
      ELSE [result |-> f.ok, log |-> envLog \o p.log \o f.log]

\* function launchInEditor(fileWithPos, preferred = DEFAULT_EDITOR); o gives
\* the outcome of each spawn call, should it be made.
LaunchInEditor(editorCmd, preferred, fallback, o) ==
  LET envLog == IF editorCmd
                  THEN <<[strategy |-> "override", editor |-> "EDITOR_CMD",
                          outcome |-> o.override]>>
                  ELSE <<>>
  IN  IF editorCmd /\ o.override # "threw"
        THEN [result |-> TRUE, log |-> envLog]
        ELSE LET p == TryRun("preferred", preferred, o.preferred)
             IN  IF p.ok THEN [result |-> TRUE, log |-> envLog \o p.log]
                 ELSE LET f == IF fallback # ""
                                 THEN TryRun("fallback", fallback, o.fallback)
                                 ELSE [ok |-> FALSE, log |-> <<>>]
                      IN  [result |-> f.ok, log |-> envLog \o p.log \o f.log]

\* function detectAvailableEditors(): the editors with a CLI, in the order
\* cursor, code, webstorm.
DetectOrder == <<"cursor", "code", "webstorm">>
RECURSIVE DetectFrom(_, _)
DetectFrom(cli, i) ==
  IF i > Len(DetectOrder) THEN <<>>
  ELSE (IF DetectOrder[i] \in cli THEN <<DetectOrder[i]>> ELSE <<>>)
         \o DetectFrom(cli, i + 1)
DetectAvailableEditors(cli) == DetectFrom(cli, 1)

\* Faulty variant: the config file is asked before LAUNCH_EDITOR.
DefaultEditor_ConfigFirst(envEditor, cfgEditor, available) ==
  IF cfgEditor # "" THEN cfgEditor
  ELSE IF envEditor # "" THEN envEditor
  ELSE IF Len(available) >= 1 THEN available[1]
  ELSE "cursor"

\* const DEFAULT_EDITOR = process.env.LAUNCH_EDITOR || cfg.editor ||
\*   AVAILABLE_EDITORS[0]?.name || 'cursor'
DefaultEditor(envEditor, cfgEditor, available) ==
  IF envEditor # "" THEN envEditor
  ELSE IF cfgEditor # "" THEN cfgEditor
  ELSE IF Len(available) >= 1 THEN available[1]
  ELSE "cursor"

\* const FALLBACK_EDITOR = cfg.fallbackEditor || AVAILABLE_EDITORS[1]?.name
\*   || 'code'
FallbackEditor(cfgFallback, available) ==
  IF cfgFallback # "" THEN cfgFallback
  ELSE IF Len(available) >= 2 THEN available[2]
  ELSE "code"

\* The server starts with some environment, config file and installed
\* editors.
LaunchInit ==
  /\ lnEditorCmd \in BOOLEAN
  /\ lnEnvEditor \in {""} \cup EditorNames
  /\ lnCfgEditor \in {""} \cup EditorNames
  /\ lnCfgFallback \in {""} \cup EditorNames
  /\ lnCli \in SUBSET TemplateEditors
  /\ lnPreferred = DefaultEditor(lnEnvEditor, lnCfgEditor,
                                 DetectAvailableEditors(lnCli))
  /\ lnFallback = FallbackEditor(lnCfgFallback,
                                 DetectAvailableEditors(lnCli))
  /\ lnLog = <<>>
  /\ lnResult = "none"

\* const ok = launchInEditor(fileWithPos), the call of the open endpoints.
CallLaunchInEditor ==
  /\ \E o \in [override : SpawnOutcomes, preferred : SpawnOutcomes,
               fallback : SpawnOutcomes] :
       LET r == LaunchInEditor(lnEditorCmd, lnPreferred, lnFallback, o)
       IN  /\ lnLog' = r.log
           /\ lnResult' = IF r.result THEN "true" ELSE "false"
  /\ UNCHANGED launchCfg
  /\ LaunchFrame

LaunchNext == CallLaunchInEditor

(***************************************************************************)
(* Part 6.  The HTTP endpoints (src/src/node/file-opener.ts, lines 311-406)*)
(***************************************************************************)

\* url.searchParams.get(name): null, or the value as a string.
NoParam == [set |-> FALSE, v |-> <<>>]
Param(v) == [set |-> TRUE, v |-> v]
\* !file, !searchParam, get('line') || '1': null and '' are falsy.
Missing(param) == ~param.set \/ param.v = <<>>

\* The character a percent escape stands for; "" for a pair that is no
\* escape.  Only the escapes the requests below use are listed.
PercentChar(a, b) ==
  CASE a = "2" /\ b = "0" -> " "
    [] a = "2" /\ b = "5" -> "%"
    [] OTHER -> ""

\* decodeURIComponent(s): the decoded string, or a URIError.
RECURSIVE DecodeFrom(_, _, _)
DecodeFrom(s, i, acc) ==
  IF i > Len(s) THEN [ok |-> TRUE, s |-> acc]
  ELSE IF s[i] # "%" THEN DecodeFrom(s, i + 1, Append(acc, s[i]))
  ELSE IF i + 2 <= Len(s) /\ PercentChar(s[i + 1], s[i + 2]) # ""
         THEN DecodeFrom(s, i + 3,
                         Append(acc, PercentChar(s[i + 1], s[i + 2])))
         ELSE [ok |-> FALSE, s |-> <<>>]

DecodeURIComponent(s) == DecodeFrom(s, 1, <<>>)

\* ---- JSON.parse, for texts without whitespace and string escapes ----
JsonDigits == <<"0", "1", "2", "3", "4", "5", "6", "7", "8", "9">>
IsDigit(c) == \E i \in 1..Len(JsonDigits) : JsonDigits[i] = c
JNull == [t |-> "null", s |-> <<>>, items |-> <<>>]
JNum(s) == [t |-> "num", s |-> s, items |-> <<>>]
JStr(s) == [t |-> "str", s |-> s, items |-> <<>>]
JArr(items) == [t |-> "arr", s |-> <<>>, items |-> items]
JObj == [t |-> "obj", s |-> <<>>, items |-> <<>>]
JFail == [ok |-> FALSE, v |-> JNull, next |-> 0]

\* The first index from i on where text holds a character of (or, with
\* inside = FALSE, outside) the set; Len(text) + 1 if there is none.
RECURSIVE ScanTo(_, _, _, _)
ScanTo(text, i, set, inside) ==
  IF i > Len(text) THEN i
  ELSE IF (text[i] \in set) = inside THEN i
  ELSE ScanTo(text, i + 1, set, inside)

RECURSIVE ParseValue(_, _)
RECURSIVE ParseItems(_, _, _)
\* One JSON value starting at text[i]: null, a number, a string, an array,
\* or the empty object.
ParseValue(text, i) ==
  IF i > Len(text) THEN JFail
  ELSE IF text[i] = "n"
    THEN IF i + 3 <= Len(text)
              /\ SubSeq(text, i, i + 3) = <<"n", "u", "l", "l">>
           THEN [ok |-> TRUE, v |-> JNull, next |-> i + 4]
           ELSE JFail
  ELSE IF IsDigit(text[i])
    THEN LET e == ScanTo(text, i, {JsonDigits[k] : k \in 1..10}, FALSE)
         IN  [ok |-> TRUE, v |-> JNum(SubSeq(text, i, e - 1)), next |-> e]
  ELSE IF text[i] = "\""
    THEN LET e == ScanTo(text, i + 1, {"\""}, TRUE)
         IN  IF e > Len(text) THEN JFail
             ELSE [ok |-> TRUE, v |-> JStr(SubSeq(text, i + 1, e - 1)),
                   next |-> e + 1]
  ELSE IF text[i] = "["
    THEN IF i + 1 <= Len(text) /\ text[i + 1] = "]"
           THEN [ok |-> TRUE, v |-> JArr(<<>>), next |-> i + 2]
           ELSE ParseItems(text, i + 1, <<>>)
  ELSE IF text[i] = "{"
    THEN IF i + 1 <= Len(text) /\ text[i + 1] = "}"
           THEN [ok |-> TRUE, v |-> JObj, next |-> i + 2]
           ELSE JFail
  ELSE JFail

\* The elements of an array from text[i] on, up to the closing bracket.
ParseItems(text, i, acc) ==
  LET r == ParseValue(text, i)
  IN  IF ~r.ok \/ r.next > Len(text) THEN JFail
      ELSE IF text[r.next] = ","
        THEN ParseItems(text, r.next + 1, Append(acc, r.v))
      ELSE IF text[r.next] = "]"
        THEN [ok |-> TRUE, v |-> JArr(Append(acc, r.v)), next |-> r.next + 1]
      ELSE JFail

\* JSON.parse(text): the value, or a SyntaxError.
JsonParse(text) ==
  LET r == ParseValue(text, 1)
  IN  IF r.ok /\ r.next = Len(text) + 1 THEN [ok |-> TRUE, v |-> r.v]
      ELSE [ok |-> FALSE, v |-> JNull]

\* `${n}` for a number n >= 0.
RECURSIVE NumToStr(_)
NumToStr(n) ==
  IF n < 10 THEN <<JsonDigits[n + 1]>>
  ELSE Append(NumToStr(n \div 10), JsonDigits[(n % 10) + 1])

\* ---- the files a search request can name ----
\* /app/a.ts
P_appA ==
  <<"/", "a", "p", "p", "/", "a", ".", "t", "s">>
\* /app/gone.ts
P_appGone ==
  <<"/", "a", "p", "p", "/", "g", "o", "n", "e", ".", "t", "s">>
\* /app/100%.ts
P_appPct ==
  <<"/", "a", "p", "p", "/", "1", "0", "0", "%", ".", "t", "s">>
\* fs.readFileSync(filePath, 'utf8'): the text, or a throw.
ReadFileSync(filePath) ==
  IF filePath = P_appA THEN [ok |-> TRUE, content |-> F_twice]
  ELSE [ok |-> FALSE, content |-> <<>>]

\* findBestLineInFile(filePath, searchTerms) for whatever JSON.parse
\* returned: readFileSync, searchTerms.forEach and term.toLowerCase() throw
\* inside the try block, and the catch block returns 1.
BestLineFor(filePath, terms) ==
  LET f == ReadFileSync(filePath)
  IN  IF ~f.ok THEN 1
      ELSE IF terms.t # "arr" THEN 1
      ELSE IF \E i \in 1..Len(terms.items) : terms.items[i].t # "str" THEN 1
      ELSE FindBestLineInFile(f.content,
             [i \in 1..Len(terms.items) |-> terms.items[i].s]).best

\* ---- the answers ----
NoTarget == [file |-> <<>>, line |-> <<>>, col |-> <<>>]
NoRequest ==
  [method |-> "", path |-> "", file |-> NoParam, line |-> NoParam,
   col |-> NoParam, search |-> NoParam]
\* res.statusCode = status; res.end(...): launchInEditor was not called.
Answer(status) ==
  [status |-> status, target |-> NoTarget, result |-> "none", log |-> <<>>]
\* The listener throws before it answers.
Uncaught == Answer(-1)
\* const ok = launchInEditor(fileWithPos); 500 if (!ok), else 200.
Dispatch(target, o) ==
  LET r == LaunchInEditor(lnEditorCmd, lnPreferred, lnFallback, o)
  IN  [status |-> IF r.result THEN 200 ELSE 500, target |-> target,
       result |-> IF r.result THEN "true" ELSE "false", log |-> r.log]

\* if (pathname === '/__open-in-editor') { ... }
OpenInEditor(req, o) ==
  LET line == IF Missing(req.line) THEN <<"1">> ELSE req.line.v
      col == IF Missing(req.col) THEN <<"1">> ELSE req.col.v
  IN  IF Missing(req.file) THEN Answer(400)
      ELSE LET decoded == DecodeURIComponent(req.file.v)
           IN  IF ~decoded.ok THEN Uncaught
               ELSE Dispatch([file |-> decoded.s, line |-> line,
                              col |-> col], o)

\* Faulty variant: findBestLineInFile lets the read error out, and the catch
\* block of the handler answers 500.
OpenInEditorSearch_ReadErrorPropagates(req, o) ==
  IF Missing(req.file) THEN Answer(400)
  ELSE IF Missing(req.search) THEN Answer(400)
  ELSE LET decoded == DecodeURIComponent(req.file.v)
           text == DecodeURIComponent(req.search.v)
           parsed == JsonParse(text.s)
       IN  IF ~decoded.ok THEN Uncaught
           ELSE IF ~text.ok \/ ~parsed.ok THEN Answer(500)
           ELSE IF ~ReadFileSync(decoded.s).ok THEN Answer(500)
           ELSE Dispatch([file |-> decoded.s,
                          line |-> NumToStr(BestLineFor(decoded.s, parsed.v)),
                          col |-> <<"1">>], o)

\* if (pathname === '/__open-in-editor-search') { ... }
OpenInEditorSearch(req, o) ==
  IF Missing(req.file) THEN Answer(400)
  ELSE IF Missing(req.search) THEN Answer(400)
  ELSE LET decoded == DecodeURIComponent(req.file.v)
           text == DecodeURIComponent(req.search.v)
           parsed == JsonParse(text.s)
       IN  IF ~decoded.ok THEN Uncaught
           ELSE IF ~text.ok \/ ~parsed.ok THEN Answer(500)
           ELSE Dispatch([file |-> decoded.s,
                          line |-> NumToStr(BestLineFor(decoded.s, parsed.v)),
                          col |-> <<"1">>], o)

\* The request listener, for the paths other than /__cmp-map.
Listener(req, o) ==
  IF req.method # "GET" THEN Answer(405)
  ELSE IF req.path = "/__open-in-editor" THEN OpenInEditor(req, o)
  ELSE IF req.path = "/__open-in-editor-search"
    THEN OpenInEditorSearch(req, o)
  ELSE Answer(404)

\* ---- inputs of the endpoints ----
FileParams ==
  {NoParam, Param(<<>>), Param(P_appA), Param(P_appGone), Param(P_appPct)}
\* line and col as the query carries them: none, 7, 0, -3, abc.
PosParams ==
  {NoParam, Param(<<"7">>), Param(<<"0">>), Param(<<"-", "3">>),
   Param(<<"a", "b", "c">>)}
\* ["save"]
J_terms ==
  <<"[", "\"", "s", "a", "v", "e", "\"", "]">>
\* ["x","save"]
J_two ==
  <<"[", "\"", "x", "\"", ",", "\"", "s", "a", "v", "e", "\"", "]">>
\* []
J_none ==
  <<"[", "]">>
\* "save"
J_string ==
  <<"\"", "s", "a", "v", "e", "\"">>
\* {}
J_object ==
  <<"{", "}">>
\* null
J_null ==
  <<"n", "u", "l", "l">>
\* [1]
J_numbers ==
  <<"[", "1", "]">>
\* ["save",2]
J_mixed ==
  <<"[", "\"", "s", "a", "v", "e", "\"", ",", "2", "]">>
\* ["save"
J_cut ==
  <<"[", "\"", "s", "a", "v", "e", "\"">>
\* save
J_bare ==
  <<"s", "a", "v", "e">>
\* ["100%"]
J_percent ==
  <<"[", "\"", "1", "0", "0", "%", "\"", "]">>
SearchParams ==
  {NoParam, Param(<<>>)}
    \cup {Param(t) : t \in {J_terms, J_two, J_none, J_string, J_object,
                            J_null, J_numbers, J_mixed, J_cut, J_bare,
                            J_percent}}
Requests ==
  [method : {"GET"}, path : {"/__open-in-editor"}, file : FileParams,
   line : PosParams, col : PosParams, search : {NoParam}]
    \cup [method : {"GET"}, path : {"/__open-in-editor-search"},
          file : FileParams, line : {NoParam}, col : {NoParam},
          search : SearchParams]
    \cup [method : {"GET", "POST"}, path : {"/__open-in-editor", "/other"},
          file : {Param(P_appA)}, line : {NoParam}, col : {NoParam},
          search : {NoParam}]

\* The server is up: the persisted files are there or not, the editors are
\* the defaults, no request has come in.
ServerInit ==
  /\ svReq = NoRequest
  /\ svStatus = 0
  /\ svTarget = NoTarget
  /\ svPending = FALSE

\* A request reaches the server.
Receive ==
  /\ ~svPending
  /\ svReq' \in Requests
  /\ svPending' = TRUE
  /\ svStatus' = 0
  /\ svTarget' = NoTarget
  /\ lnLog' = <<>>
  /\ lnResult' = "none"
  /\ UNCHANGED launchCfg
  /\ ServerFrame

\* The listener of http.createServer runs for it.
Handle ==
  /\ svPending
  /\ \E o \in [override : SpawnOutcomes, preferred : SpawnOutcomes,
               fallback : SpawnOutcomes] :
       LET r == Listener(svReq, o)
       IN  /\ svStatus' = r.status
           /\ svTarget' = r.target
           /\ lnLog' = r.log
           /\ lnResult' = r.result
  /\ svPending' = FALSE
  /\ UNCHANGED <<svReq, launchCfg>>
  /\ ServerFrame

(***************************************************************************)
(* Part 7.  The source filter and the build loop (src/src/node/cmp-scan.ts)*)
(***************************************************************************)

\* p.replace(/\\/g, '/')
ToPosix(p) == [i \in 1..Len(p) |-> IF p[i] = "\\" THEN "/" ELSE p[i]]

\* str.replace(/pat/g, ''): every occurrence of pat, left to right, is
\* dropped.
RECURSIVE RemoveAll(_, _)
RemoveAll(str, pat) ==
  IF Len(str) < Len(pat) THEN str
  ELSE IF SubSeq(str, 1, Len(pat)) = pat
         THEN RemoveAll(SubSeq(str, Len(pat) + 1, Len(str)), pat)
         ELSE <<Head(str)>> \o RemoveAll(Tail(str), pat)

\* function globToNeedle(glob)
GlobToNeedle(glob) == RemoveAll(RemoveAll(ToPosix(glob), <<"*", "*">>), <<"*">>)

\* Faulty variant: no file is ever excluded.
IsExcluded_Never(filePath, excludeGlobs) == FALSE

\* function isExcluded(filePath, excludeGlobs)
IsExcluded(filePath, excludeGlobs) ==
  \E k \in 1..Len(excludeGlobs) :
    LET needle == GlobToNeedle(excludeGlobs[k])
    IN  needle # <<>> /\ StrIncludes(ToPosix(filePath), needle)

\* .filter((sf) => !isExcluded(sf.getFilePath(), excludeGlobs))
RECURSIVE FilterFrom(_, _, _)
FilterFrom(found, globs, i) ==
  IF i > Len(found) THEN <<>>
  ELSE (IF IsExcluded(found[i].path, globs) THEN <<>> ELSE <<found[i]>>)
         \o FilterFrom(found, globs, i + 1)
FilterSources(found, globs) == FilterFrom(found, globs, 1)

\* ---- inputs of the filter and the loop ----
\* **/node_modules/**
G_nodeModules ==
  <<"*", "*", "/", "n", "o", "d", "e", "_", "m", "o", "d", "u", "l",
    "e", "s", "/", "*", "*">>
\* **/dist/**
G_dist ==
  <<"*", "*", "/", "d", "i", "s", "t", "/", "*", "*">>
\* **/.angular/**
G_angular ==
  <<"*", "*", "/", ".", "a", "n", "g", "u", "l", "a", "r", "/", "*",
    "*">>
\* **/coverage/**
G_coverage ==
  <<"*", "*", "/", "c", "o", "v", "e", "r", "a", "g", "e", "/", "*",
    "*">>
\* **/*.spec.ts
G_spec ==
  <<"*", "*", "/", "*", ".", "s", "p", "e", "c", ".", "t", "s">>
\* **/*.test.ts
G_test ==
  <<"*", "*", "/", "*", ".", "t", "e", "s", "t", ".", "t", "s">>
\* **/*.e2e.ts
G_e2e ==
  <<"*", "*", "/", "*", ".", "e", "2", "e", ".", "t", "s">>
\* /w/src/app.ts
S_app ==
  <<"/", "w", "/", "s", "r", "c", "/", "a", "p", "p", ".", "t", "s">>
\* /w/node_modules/lib/x.ts
S_lib ==
  <<"/", "w", "/", "n", "o", "d", "e", "_", "m", "o", "d", "u", "l",
    "e", "s", "/", "l", "i", "b", "/", "x", ".", "t", "s">>
\* /w/src/foo.spec.ts
S_fooSpec ==
  <<"/", "w", "/", "s", "r", "c", "/", "f", "o", "o", ".", "s", "p",
    "e", "c", ".", "t", "s">>
\* /w/src/.spec.ts
S_dotSpec ==
  <<"/", "w", "/", "s", "r", "c", "/", ".", "s", "p", "e", "c", ".",
    "t", "s">>
\* /w/src/distant/d.ts
S_distant ==
  <<"/", "w", "/", "s", "r", "c", "/", "d", "i", "s", "t", "a", "n",
    "t", "/", "d", ".", "t", "s">>
\* /w/dist/main.ts
S_built ==
  <<"/", "w", "/", "d", "i", "s", "t", "/", "m", "a", "i", "n", ".",
    "t", "s">>
\* const DEFAULT_EXCLUDE_GLOBS
DEFAULT_EXCLUDE_GLOBS ==
  <<G_nodeModules, G_dist, G_angular, G_coverage, G_spec, G_test, G_e2e>>
ExcludeLists ==
  {DEFAULT_EXCLUDE_GLOBS, <<>>, <<G_nodeModules>>, <<G_spec>>}
SourcePaths == {S_app, S_lib, S_fooSpec, S_dotSpec, S_distant, S_built}
\* What a file declares: one component, the same name twice, two names.
BuildContents ==
  {<<Cls("A", "")>>, <<Cls("A", ""), Cls("A", "")>>,
   <<Cls("B", ""), Cls("A", "")>>}
\* Files the include globs match in one scan.
MaxFound == 2
\* The lists of at most n files with different paths.
RECURSIVE FoundLists(_)
FoundLists(n) ==
  IF n = 0 THEN {<<>>}
  ELSE FoundLists(n - 1)
         \cup {Append(l, [path |-> p, classes |-> c]) :
                 l \in {m \in FoundLists(n - 1) :
                          Len(m) = n - 1},
                 p \in SourcePaths, c \in BuildContents}

\* cmp-scan has loaded the files the include globs match.
BuildInit ==
  /\ bdFound \in {l \in FoundLists(MaxFound) :
                    \A i, j \in 1..Len(l) : i # j => l[i].path # l[j].path}
  /\ bdGlobs \in ExcludeLists
  /\ bdSources = <<>>
  /\ bdIndex = NoIndex

\* The filter of lines 133-135 and the loop of lines 155-202.
FilterAndBuild ==
  /\ bdIndex = NoIndex
  /\ bdSources' = FilterSources(bdFound, bdGlobs)
  /\ bdIndex' = BuildMap(FilterSources(bdFound, bdGlobs), 1)
  /\ UNCHANGED <<bdFound, bdGlobs>>
  /\ BuildFrame

BuildNext == FilterAndBuild

\* The tree has been scanned before the server started: the source files,
\* and the index and the cache of them (or none, when they were removed).
Persisted ==
  /\ SeqInit
  /\ files = [p \in Paths |->
                [exists |-> TRUE, content |-> <<Cls("A", "")>>, mtime |-> 1]]
  /\ cacheFile \in {NoCache, [kind |-> "ok", m |-> [p \in Paths |-> 1]]}

ServerNext ==
  \/ Receive
  \/ Handle
  \/ ServeMap

(***************************************************************************)
(* Part 8.  The locator in the page (src/src/browser/index.ts): install,   *)
(* the fetches of the index, the Alt+click handler and the hover state     *)
(* machine.  The index the server answers with is the one the scanner      *)
(* builds from srcTree; CMP_MAP, srcTree and locPath are the resolver's.   *)
(***************************************************************************)

MaxInstalls == 2
MaxInFlight == 2

NoElement == "none"
\* The elements of the page: "card" belongs to a component with a template,
\* "badge" to a component without one, "text" to no component.
PageElements == {"card", "badge", "text"}

\* getAngularRuntimeComponent(el)?.constructor?.name (<<>>: no component)
RuntimeClassName(el) ==
  CASE el = "card" -> N_Foo
    [] el = "badge" -> N_F
    [] OTHER -> <<>>

\* The source tree before and after the developer moves the Foo component.
PageTreeA == <<[path |-> P_widgets,
                classes |-> <<[name |-> N_Foo, tpl |-> "foo.html"]>>],
               [path |-> P_xaf, classes |-> <<RCls(N_F)>>]>>
PageTreeB == <<[path |-> P_dashboard,
                classes |-> <<[name |-> N_Foo, tpl |-> "foo.html"]>>],
               [path |-> P_xaf, classes |-> <<RCls(N_F)>>]>>
PageTrees == {PageTreeA, PageTreeB}

OptionNames == {"prefetchMap", "enableHover", "enableClick", "showTooltip"}
\* const DEFAULT_OPTIONS
DEFAULT_OPTIONS == [n \in OptionNames |-> TRUE]
\* The options argument of installAngularLocator: the fields it sets.
CallOptions ==
  {[n \in {} |-> TRUE],
   [n \in {"prefetchMap"} |-> FALSE],
   [n \in {"enableHover"} |-> FALSE],
   [n \in {"enableClick"} |-> FALSE],
   [n \in {"prefetchMap", "showTooltip"} |-> FALSE]}
\* const mergedOptions = { ...DEFAULT_OPTIONS, ...options }
MergeOptions(o) ==
  [n \in OptionNames |-> IF n \in DOMAIN o THEN o[n] ELSE DEFAULT_OPTIONS[n]]

NoListeners == [click |-> 0, keydown |-> 0, keyup |-> 0, mousemove |-> 0,
                window |-> 0]
\* The addEventListener calls that end installInternal.  A named function
\* is registered once however often it is added; the scroll, resize and
\* blur listeners are fresh closures at every call.
RegisterListeners(l, opts) ==
  [l EXCEPT !.click = IF opts.enableClick THEN 1 ELSE @,
            !.keydown = IF opts.enableHover THEN 1 ELSE @,
            !.keyup = IF opts.enableHover THEN 1 ELSE @,
            !.window = @ + 1]

\* What a fetch of /__cmp-map can end in: the index the scanner built from
\* the tree, or a failure (the fetch rejects, or JSON.parse rejects the
\* body): ensureMap throws on both.
Responses(tree) ==
  {[kind |-> "ok", map |-> NormalizeMap(ParseMap(BuildMap(tree, 1)))],
   [kind |-> "failed", map |-> NullMap]}

\* function getNearestComponent(el)
GetNearestComponent(map, url, el) ==
  IF map.isNull \/ RuntimeClassName(el) = <<>> THEN NoResult
  ELSE GetComponentInfoByClassName(map, url, RuntimeClassName(el))

TsFile(info) == [ts |-> info.filePath, html |-> ""]
HtmlFile(info) == [ts |-> <<>>, html |-> info.templateUrl]
\* async function openFile(absPath, line = 1, col = 1): the request it
\* issues; a rejected fetch is swallowed.
OpenFile(file) ==
  <<[endpoint |-> "open", file |-> file, line |-> 1, col |-> 1]>>
\* async function openFileWithSearch(absPath, searchTerms): the requests it
\* issues; when its fetch rejects the catch block calls openFile(absPath).
OpenFileWithSearch(file, net) ==
  <<[endpoint |-> "search", file |-> file, line |-> 0, col |-> 0]>>
    \o (IF net = "rejected" THEN OpenFile(file) ELSE <<>>)

\* Faulty variant: ev.shiftKey is not looked at.
HandleAltOpen_IgnoresShift(map, url, el, shiftKey, net) ==
  LET r == GetNearestComponent(map, url, el)
  IN  IF ~r.found THEN <<>>
      ELSE IF r.info.templateUrl # ""
        THEN OpenFileWithSearch(HtmlFile(r.info), net)
      ELSE OpenFile(TsFile(r.info))

\* handleAltOpen from getNearestComponent on: the requests it issues.  Its
\* outer catch block needs openFile, openFileWithSearch or
\* findTemplatePosition to throw, which they do not for these elements.
HandleAltOpen(map, url, el, shiftKey, net) ==
  LET r == GetNearestComponent(map, url, el)
  IN  IF ~r.found THEN <<>>
      ELSE IF shiftKey THEN OpenFile(TsFile(r.info))
      ELSE IF r.info.templateUrl # ""
        THEN OpenFileWithSearch(HtmlFile(r.info), net)
      ELSE OpenFile(TsFile(r.info))

Highlights == [overlay |-> currentHighlightOverlay,
               tooltip |-> currentTooltip,
               overlays |-> domOverlays, tooltips |-> domTooltips]
SetHighlights(h) ==
  /\ currentHighlightOverlay' = h.overlay
  /\ currentTooltip' = h.tooltip
  /\ domOverlays' = h.overlays
  /\ domTooltips' = h.tooltips

\* Faulty variant: only the overlay is removed.
RemoveHighlights_OverlayOnly(h) ==
  [h EXCEPT !.overlay = NoElement,
            !.overlays = IF h.overlay # NoElement THEN @ - 1 ELSE @]

\* function removeHighlights()
RemoveHighlights(h) ==
  [overlay |-> NoElement, tooltip |-> NoElement,
   overlays |-> IF h.overlay # NoElement THEN h.overlays - 1 ELSE h.overlays,
   tooltips |-> IF h.tooltip # NoElement THEN h.tooltips - 1 ELSE h.tooltips]

\* handleMouseMove from removeHighlights() on: the overlay and the tooltip
\* of the element, when it resolves to a component.
ShowHighlights(h, opts, map, url, el) ==
  LET c == RemoveHighlights(h)
  IN  IF ~GetNearestComponent(map, url, el).found THEN c
      ELSE [overlay |-> el, overlays |-> c.overlays + 1,
            tooltip |-> IF opts.showTooltip THEN el ELSE NoElement,
            tooltips |-> IF opts.showTooltip THEN c.tooltips + 1
                         ELSE c.tooltips]

NoClick == [target |-> NoElement, altKey |-> FALSE, shiftKey |-> FALSE,
            state |-> "none", cmp |-> NoResult, net |-> "none",
            requests |-> <<>>]
NoRefresh == [before |-> FALSE, state |-> "none"]

PageInit ==
  /\ INSTALLED = FALSE
  /\ OPTIONS = DEFAULT_OPTIONS
  /\ mapLoadPromise = FALSE
  /\ isAltPressed = FALSE
  /\ currentTooltip = NoElement
  /\ currentHighlightOverlay = NoElement
  /\ lastHighlightedElement = NoElement
  /\ listeners = NoListeners
  /\ domOverlays = 0
  /\ domTooltips = 0
  /\ fetches = <<>>
  /\ lastClick = NoClick
  /\ altDown = FALSE
  /\ focused = TRUE
  /\ hMoved = NoElement
  /\ hLatest = NullMap
  /\ hRefresh = NoRefresh
  /\ hCalls = 0
  /\ hFirstOptions = DEFAULT_OPTIONS
  /\ srcTree = PageTreeA
  /\ CMP_MAP = NullMap
  /\ locPath = U_root
  /\ lastQuery = <<>>
  /\ lastResult = NoResult
  /\ hAt = NoCall

\* ensureMap up to its first await: fetch(OPTIONS.endpoints.componentMap).
IssueFetch(by) ==
  /\ Len(fetches) < MaxInFlight
  /\ \E res \in Responses(srcTree) :
       fetches' = Append(fetches,
                         [by |-> by, res |-> res, overtaken |-> FALSE])

\* Faulty variant: every call installs, whatever INSTALLED says.
InstallAngularLocator_NoGuard ==
  /\ hCalls < MaxInstalls
  /\ hCalls' = hCalls + 1
  /\ \E o \in CallOptions :
       /\ hFirstOptions' = IF hCalls = 0 THEN MergeOptions(o)
                           ELSE hFirstOptions
       /\ INSTALLED' = TRUE
       /\ OPTIONS' = MergeOptions(o)
       /\ listeners' = RegisterListeners(listeners, MergeOptions(o))
       /\ UNCHANGED fetches
  /\ hMoved' = NoElement
  /\ UNCHANGED <<mapLoadPromise, isAltPressed, currentTooltip,
                 currentHighlightOverlay, lastHighlightedElement,
                 domOverlays, domTooltips, lastClick, altDown, focused, hLatest,
                 hRefresh, srcTree, CMP_MAP, locPath>>
  /\ PageFrame

\* installAngularLocator(options) and installInternal up to the await of
\* the prefetch (window and document exist in the page).
InstallAngularLocator ==
  /\ hCalls < MaxInstalls
  /\ hCalls' = hCalls + 1
  /\ \E o \in CallOptions :
       /\ hFirstOptions' = IF hCalls = 0 THEN MergeOptions(o)
                           ELSE hFirstOptions
       /\ IF INSTALLED
            THEN UNCHANGED <<INSTALLED, OPTIONS, listeners, fetches>>
            ELSE /\ INSTALLED' = TRUE
                 /\ OPTIONS' = MergeOptions(o)
                 /\ IF MergeOptions(o).prefetchMap /\ CMP_MAP.isNull
                      THEN /\ IssueFetch("install")
                           /\ UNCHANGED listeners
                      ELSE /\ listeners' =
                                RegisterListeners(listeners, MergeOptions(o))
                           /\ UNCHANGED fetches
  /\ hMoved' = NoElement
  /\ UNCHANGED <<mapLoadPromise, isAltPressed, currentTooltip,
                 currentHighlightOverlay, lastHighlightedElement,
                 domOverlays, domTooltips, lastClick, altDown, focused, hLatest,
                 hRefresh, srcTree, CMP_MAP, locPath>>
  /\ PageFrame

\* refreshComponentMap up to the await: CMP_MAP = null; ensureMap(true)
RefreshComponentMap ==
  /\ IssueFetch("refresh")
  /\ CMP_MAP' = NullMap
  /\ hRefresh' = [before |-> ~CMP_MAP.isNull, state |-> "running"]
  /\ hMoved' = NoElement
  /\ UNCHANGED <<INSTALLED, OPTIONS, mapLoadPromise, isAltPressed,
                 currentTooltip, currentHighlightOverlay,
                 lastHighlightedElement, listeners, domOverlays, domTooltips,
                 lastClick, altDown, focused, hLatest, hCalls, hFirstOptions,
                 srcTree, locPath>>
  /\ PageFrame

\* A fetch of the index settles: the rest of ensureMap (CMP_MAP =
\* normalizeMap(JSON.parse(text)), or a throw) and then the rest of its
\* caller: installInternal, ensureMapIfNeeded's finally, handleAltOpen or
\* refreshComponentMap.
FetchSettles ==
  \E i \in 1..Len(fetches) :
    LET f == fetches[i]
        ok == f.res.kind = "ok"
        map1 == IF ok THEN f.res.map ELSE CMP_MAP
    IN  /\ fetches' = [j \in 1..(Len(fetches) - 1) |->
                         IF j < i
                           THEN [fetches[j] EXCEPT !.overtaken = @ \/ ok]
                           ELSE fetches[j + 1]]
        /\ CMP_MAP' = map1
        /\ hLatest' = IF ok /\ ~f.overtaken THEN f.res.map ELSE hLatest
        /\ listeners' = IF f.by = "install"
                          THEN RegisterListeners(listeners, OPTIONS)
                          ELSE listeners
        /\ mapLoadPromise' = IF f.by = "hover" THEN FALSE ELSE mapLoadPromise
        /\ IF f.by = "click"
             THEN \E net \in {"ok", "rejected"} :
                    lastClick' = [lastClick EXCEPT
                      !.state = "done",
                      !.cmp = GetNearestComponent(map1, locPath,
                                                  lastClick.target),
                      !.net = net,
                      !.requests = HandleAltOpen(map1, locPath,
                        lastClick.target, lastClick.shiftKey, net)]
             ELSE UNCHANGED lastClick
        /\ hRefresh' = IF f.by = "refresh"
                         THEN [hRefresh EXCEPT !.state =
                                 IF ok THEN "loaded" ELSE "failed"]
                       ELSE IF ok THEN NoRefresh ELSE hRefresh
        /\ hMoved' = NoElement
        /\ UNCHANGED <<INSTALLED, OPTIONS, isAltPressed, currentTooltip,
                       currentHighlightOverlay, lastHighlightedElement,
                       domOverlays, domTooltips, altDown, focused,
                       hCalls, hFirstOptions, srcTree, locPath>>
        /\ PageFrame

\* The scanner rewrites the index after the developer moved a component.
IndexRebuilt ==
  /\ \E t \in PageTrees \ {srcTree} : srcTree' = t
  /\ hMoved' = NoElement
  /\ UNCHANGED <<INSTALLED, OPTIONS, mapLoadPromise, isAltPressed,
                 currentTooltip, currentHighlightOverlay,
                 lastHighlightedElement, listeners, domOverlays, domTooltips,
                 fetches, lastClick, altDown, focused, hLatest,
                 hRefresh, hCalls, hFirstOptions, CMP_MAP, locPath>>
  /\ PageFrame

\* A click event with ev.altKey as the key is held: handleAltClick and
\* handleAltOpen up to the await of ensureMap.  The next click comes when
\* the one before has been handled.
ClickOn(el, shiftKey) ==
  /\ focused
  /\ lastClick.state # "awaitingMap"
  /\ LET rec(st, net, reqs) ==
          [target |-> el, altKey |-> altDown, shiftKey |-> shiftKey,
           state |-> st, net |-> net, requests |-> reqs,
           cmp |-> IF st = "done"
                     THEN GetNearestComponent(CMP_MAP, locPath, el)
                     ELSE NoResult]
     IN  IF listeners.click = 0 \/ ~OPTIONS.enableClick \/ ~altDown
           THEN /\ lastClick' = rec("ignored", "none", <<>>)
                /\ UNCHANGED fetches
         ELSE IF CMP_MAP.isNull
           THEN /\ IssueFetch("click")
                /\ lastClick' = rec("awaitingMap", "none", <<>>)
         ELSE /\ \E net \in {"ok", "rejected"} :
                   lastClick' = rec("done", net,
                     HandleAltOpen(CMP_MAP, locPath, el, shiftKey, net))
              /\ UNCHANGED fetches
  /\ hMoved' = NoElement
  /\ UNCHANGED <<INSTALLED, OPTIONS, mapLoadPromise, isAltPressed,
                 currentTooltip, currentHighlightOverlay,
                 lastHighlightedElement, listeners, domOverlays, domTooltips,
                 altDown, focused, hLatest, hRefresh, hCalls, hFirstOptions,
                 srcTree, CMP_MAP, locPath>>
  /\ PageFrame

Click ==
  \E el \in PageElements, shiftKey \in BOOLEAN : ClickOn(el, shiftKey)

\* What the hover handlers leave alone.
HoverFrame ==
  /\ UNCHANGED <<INSTALLED, OPTIONS, lastClick, hLatest, hRefresh, hCalls,
                 hFirstOptions, srcTree, CMP_MAP, locPath>>
  /\ PageFrame

\* A keydown event reaches the document: handleKeyDown.
KeyDown ==
  /\ focused
  /\ \E key \in {"Alt", "a"} :
       /\ altDown' = (altDown \/ key = "Alt")
       /\ IF listeners.keydown > 0 /\ OPTIONS.enableHover /\ key = "Alt"
            /\ ~isAltPressed
            THEN /\ isAltPressed' = TRUE
                 /\ listeners' = [listeners EXCEPT !.mousemove = 1]
            ELSE UNCHANGED <<isAltPressed, listeners>>
  /\ hMoved' = NoElement
  /\ UNCHANGED <<mapLoadPromise, currentTooltip, currentHighlightOverlay,
                 lastHighlightedElement, domOverlays, domTooltips, fetches, focused>>
  /\ HoverFrame

\* A keyup event reaches the document: handleKeyUp.
KeyUp ==
  /\ focused
  /\ \E key \in {"Alt", "a"} :
       /\ key = "Alt" => altDown
       /\ altDown' = (altDown /\ key # "Alt")
       /\ IF listeners.keyup > 0 /\ OPTIONS.enableHover
            /\ (key = "Alt" \/ ~altDown) /\ isAltPressed
            THEN /\ isAltPressed' = FALSE
                 /\ listeners' = [listeners EXCEPT !.mousemove = 0]
                 /\ SetHighlights(RemoveHighlights(Highlights))
            ELSE UNCHANGED <<isAltPressed, listeners, currentTooltip,
                             currentHighlightOverlay, domOverlays,
                             domTooltips>>
  /\ hMoved' = NoElement
  /\ UNCHANGED <<mapLoadPromise, lastHighlightedElement, fetches,
                 focused>>
  /\ HoverFrame

\* The pointer moves over an element, ev.altKey as the key is held:
\* handleMouseMove when it is registered, with ensureMapIfNeeded.
MouseMoveOver(el) ==
  /\ hMoved' = el
  /\ IF listeners.mousemove = 0 \/ ~OPTIONS.enableHover
       THEN UNCHANGED <<isAltPressed, listeners, mapLoadPromise,
                        fetches, lastHighlightedElement,
                        currentTooltip, currentHighlightOverlay,
                        domOverlays, domTooltips>>
     ELSE IF ~isAltPressed \/ ~altDown
       THEN /\ IF isAltPressed /\ ~altDown
                 THEN /\ isAltPressed' = FALSE
                      /\ listeners' = [listeners EXCEPT !.mousemove = 0]
                      /\ SetHighlights(RemoveHighlights(Highlights))
                 ELSE UNCHANGED <<isAltPressed, listeners,
                                  currentTooltip,
                                  currentHighlightOverlay, domOverlays,
                                  domTooltips>>
            /\ UNCHANGED <<mapLoadPromise, fetches,
                           lastHighlightedElement>>
     ELSE IF CMP_MAP.isNull
       THEN /\ IF mapLoadPromise
                 THEN UNCHANGED <<mapLoadPromise, fetches>>
                 ELSE /\ IssueFetch("hover")
                      /\ mapLoadPromise' = TRUE
            /\ UNCHANGED <<isAltPressed, listeners,
                           lastHighlightedElement, currentTooltip,
                           currentHighlightOverlay, domOverlays,
                           domTooltips>>
     ELSE IF lastHighlightedElement = el
       THEN UNCHANGED <<isAltPressed, listeners, mapLoadPromise,
                        fetches, lastHighlightedElement,
                        currentTooltip, currentHighlightOverlay,
                        domOverlays, domTooltips>>
     ELSE /\ lastHighlightedElement' = el
          /\ SetHighlights(ShowHighlights(Highlights, OPTIONS, CMP_MAP,
                                          locPath, el))
          /\ UNCHANGED <<isAltPressed, listeners, mapLoadPromise,
                         fetches>>
  /\ UNCHANGED <<altDown, focused>>
  /\ HoverFrame

MouseMove == \E el \in PageElements : MouseMoveOver(el)

\* The window loses the focus: the blur listener of installInternal.
Blur ==
  /\ focused
  /\ focused' = FALSE
  /\ IF listeners.window > 0
       THEN /\ isAltPressed' = FALSE
            /\ SetHighlights(RemoveHighlights(Highlights))
       ELSE UNCHANGED <<isAltPressed, currentTooltip,
                        currentHighlightOverlay, domOverlays, domTooltips>>
  /\ hMoved' = NoElement
  /\ UNCHANGED <<mapLoadPromise, lastHighlightedElement, listeners, fetches, altDown>>
  /\ HoverFrame

\* The window gets the focus back; no listener hears it.
Focus ==
  /\ ~focused
  /\ focused' = TRUE
  /\ hMoved' = NoElement
  /\ UNCHANGED <<mapLoadPromise, isAltPressed, currentTooltip,
                 currentHighlightOverlay, lastHighlightedElement, listeners,
                 domOverlays, domTooltips, fetches, altDown>>
  /\ HoverFrame

\* The Alt key is pressed or released while another window has the focus.
AltElsewhere ==
  /\ ~focused
  /\ altDown' = ~altDown
  /\ hMoved' = NoElement
  /\ UNCHANGED <<mapLoadPromise, isAltPressed, currentTooltip,
                 currentHighlightOverlay, lastHighlightedElement, listeners,
                 domOverlays, domTooltips, fetches, focused>>
  /\ HoverFrame

\* A scroll or a resize event: the scroll and resize listeners of
\* installInternal have the same body.
OnScrollOrResize ==
  /\ IF listeners.window > 0 /\ currentHighlightOverlay # NoElement
       THEN SetHighlights(RemoveHighlights(Highlights))
       ELSE UNCHANGED <<currentTooltip, currentHighlightOverlay, domOverlays,
                        domTooltips>>
  /\ hMoved' = NoElement
  /\ UNCHANGED <<mapLoadPromise, isAltPressed, lastHighlightedElement,
                 listeners, fetches, altDown, focused>>
  /\ HoverFrame

\* The page with the pointer and the keyboard.
HoverNext ==
  \/ InstallAngularLocator
  \/ FetchSettles
  \/ KeyDown
  \/ KeyUp
  \/ MouseMove
  \/ Blur
  \/ Focus
  \/ AltElsewhere
  \/ OnScrollOrResize

\* The page with clicks and the keyboard.
ClickNext ==
  \/ InstallAngularLocator
  \/ FetchSettles
  \/ KeyDown
  \/ KeyUp
  \/ Click

\* The page after installAngularLocator() with the default options, once
\* the prefetch has failed.
InstalledInit ==
  /\ INSTALLED = TRUE
  /\ OPTIONS = DEFAULT_OPTIONS
  /\ mapLoadPromise = FALSE
  /\ isAltPressed = FALSE
  /\ currentTooltip = NoElement
  /\ currentHighlightOverlay = NoElement
  /\ lastHighlightedElement = NoElement
  /\ listeners = RegisterListeners(NoListeners, DEFAULT_OPTIONS)
  /\ domOverlays = 0
  /\ domTooltips = 0
  /\ fetches = <<>>
  /\ lastClick = NoClick
  /\ altDown = FALSE
  /\ focused = TRUE
  /\ hMoved = NoElement
  /\ hLatest = NullMap
  /\ hRefresh = NoRefresh
  /\ hCalls = 1
  /\ hFirstOptions = DEFAULT_OPTIONS
  /\ srcTree = PageTreeA
  /\ CMP_MAP = NullMap
  /\ locPath = U_root
  /\ lastQuery = <<>>
  /\ lastResult = NoResult
  /\ hAt = NoCall

\* The installed page with fetches from the pointer, from clicks and from
\* refreshComponentMap, over an index that changes.
FetchNext ==
  \/ RefreshComponentMap
  \/ FetchSettles
  \/ IndexRebuilt
  \/ KeyDown
  \/ MouseMoveOver("text")
  \/ ClickOn("text", FALSE)

(***************************************************************************)
(* Specifications: one per subsystem, the others at rest.                  *)
(***************************************************************************)

\* The server runs without --watch.
WatchOff ==
  /\ watchMode = "off"
  /\ scanRunning = FALSE
  /\ scanQueued = FALSE
  /\ timer = NoTimer
  /\ pollLeft = NoTimer
  /\ procs = 0
  /\ lastCode = -1
  /\ hTrack = "off"
  /\ hStarted = 0
  /\ hPending = FALSE
  /\ hSince = 0
  /\ hDelay = -1
  /\ hRearmed = FALSE
  /\ hFires = 0
  /\ hBurst = 0
  /\ hUnserved = FALSE

\* No source tree, no scanner run yet.
ScanOff ==
  /\ files = [p \in Paths |-> NoFileRec]
  /\ clock = 1
  /\ cacheFile = NoCache
  /\ indexFile = NoIndex
  /\ pc = "idle"
  /\ sfiles = <<>>
  /\ curStats = EmptyStats
  /\ runId = 0
  /\ served = "none"
  /\ broken = {}
  /\ hTouch = NoTouch
  /\ hCacheAtStart = NoCache
  /\ hIndexAtStart = NoIndex
  /\ hIndexDone = FALSE
  /\ hOutcome = "none"
  /\ hPrev = EmptyStats
  /\ hIdxExisted = FALSE
  /\ hEnvSince = TRUE
  /\ hPrevOk = FALSE

\* No page has installed the locator.
ResOff ==
  /\ srcTree = <<>>
  /\ CMP_MAP = NullMap
  /\ locPath = U_root
  /\ lastQuery = <<>>
  /\ lastResult = NoResult
  /\ hAt = NoCall

\* No search request has been served.
RankOff ==
  /\ rkContent = <<>>
  /\ rkTerms = <<>>
  /\ rkScores = <<>>
  /\ rkThrew = FALSE
  /\ rkBest = 0

\* No open request has been served.
LaunchOff ==
  /\ lnEditorCmd = FALSE
  /\ lnEnvEditor = ""
  /\ lnCfgEditor = ""
  /\ lnCfgFallback = ""
  /\ lnCli = {"cursor", "code"}
  /\ lnPreferred = "cursor"
  /\ lnFallback = "code"
  /\ lnLog = <<>>
  /\ lnResult = "none"

\* No scan is filtering or building.
BuildOff ==
  /\ bdFound = <<>>
  /\ bdGlobs = <<>>
  /\ bdSources = <<>>
  /\ bdIndex = NoIndex

\* No request has reached the open endpoints.
ServerOff ==
  /\ svReq = NoRequest
  /\ svStatus = 0
  /\ svTarget = NoTarget
  /\ svPending = FALSE

\* No page has loaded the locator.
PageOff ==
  /\ INSTALLED = FALSE
  /\ OPTIONS = DEFAULT_OPTIONS
  /\ mapLoadPromise = FALSE
  /\ isAltPressed = FALSE
  /\ currentTooltip = NoElement
  /\ currentHighlightOverlay = NoElement
  /\ lastHighlightedElement = NoElement
  /\ listeners = NoListeners
  /\ domOverlays = 0
  /\ domTooltips = 0
  /\ fetches = <<>>
  /\ lastClick = NoClick
  /\ altDown = FALSE
  /\ focused = TRUE
  /\ hMoved = NoElement
  /\ hLatest = NullMap
  /\ hRefresh = NoRefresh
  /\ hCalls = 0
  /\ hFirstOptions = DEFAULT_OPTIONS

WatchSpecInit ==
  WatchInit /\ ScanOff /\ ResOff /\ RankOff /\ LaunchOff /\ ServerOff
    /\ BuildOff /\ PageOff
WatchSpec == WatchSpecInit /\ [][WatchNext]_vars

\* The watcher under fairness: time passes, an armed timeout fires when it
\* is due (the event loop runs it), and every scan subprocess ends and has
\* its 'close' event delivered.
WatchFairSpec ==
  /\ WatchSpecInit
  /\ [][WatchNext]_vars
  /\ WF_vars(Tick)
  /\ WF_vars(TimerFire)
  /\ WF_vars(PollTick)
  /\ WF_vars(ScanClose)

ScanSpecInit ==
  ScanInit /\ WatchOff /\ ResOff /\ RankOff /\ LaunchOff /\ ServerOff
    /\ BuildOff /\ PageOff
ScanSpec == ScanSpecInit /\ [][ScanNext]_vars

ScanSeqSpecInit ==
  SeqInit /\ WatchOff /\ ResOff /\ RankOff /\ LaunchOff /\ ServerOff
    /\ BuildOff /\ PageOff
ScanSeqSpec == ScanSeqSpecInit /\ [][SeqNext]_vars

ScanFailSpecInit ==
  FailInit /\ WatchOff /\ ResOff /\ RankOff /\ LaunchOff /\ ServerOff
    /\ BuildOff /\ PageOff
ScanFailSpec == ScanFailSpecInit /\ [][RunNext]_vars

TouchSpecInit ==
  TouchInit /\ WatchOff /\ ResOff /\ RankOff /\ LaunchOff /\ ServerOff
    /\ BuildOff /\ PageOff
TouchSpec == TouchSpecInit /\ [][TouchNext]_vars

ResolveSpecInit ==
  ResolveInit /\ WatchOff /\ ScanOff /\ RankOff /\ LaunchOff /\ ServerOff
    /\ BuildOff /\ PageOff
ResolveSpec == ResolveSpecInit /\ [][ResolveNext]_vars

SnapshotSpec == ResolveSpecInit /\ [][SnapshotNext]_vars

RankSpecInit ==
  RankInit /\ WatchOff /\ ScanOff /\ ResOff /\ LaunchOff /\ ServerOff
    /\ BuildOff /\ PageOff
RankSpec == RankSpecInit /\ [][RankNext]_vars

LaunchSpecInit ==
  LaunchInit /\ WatchOff /\ ScanOff /\ ResOff /\ RankOff /\ ServerOff
    /\ BuildOff /\ PageOff
LaunchSpec == LaunchSpecInit /\ [][LaunchNext]_vars

ServerSpecInit ==
  ServerInit /\ Persisted /\ WatchOff /\ ResOff /\ RankOff /\ LaunchOff
    /\ BuildOff /\ PageOff
ServerSpec == ServerSpecInit /\ [][ServerNext]_vars

BuildSpecInit ==
  BuildInit /\ WatchOff /\ ScanOff /\ ResOff /\ RankOff /\ LaunchOff
    /\ ServerOff /\ PageOff
BuildSpec == BuildSpecInit /\ [][BuildNext]_vars

PageSpecInit ==
  PageInit /\ WatchOff /\ ScanOff /\ RankOff /\ LaunchOff /\ ServerOff
    /\ BuildOff
HoverSpec == PageSpecInit /\ [][HoverNext]_vars
ClickSpec == PageSpecInit /\ [][ClickNext]_vars

FetchSpecInit ==
  InstalledInit /\ WatchOff /\ ScanOff /\ RankOff /\ LaunchOff /\ ServerOff
    /\ BuildOff
FetchSpec == FetchSpecInit /\ [][FetchNext]_vars



\* C1: at most one scan subprocess spawned by runScan is running at any time.
C1_AtMostOneScan == procs <= 1

\* C1 witness: a scan is in flight and a request that arrived meanwhile was
\* coalesced into the pending flag instead of spawning a second subprocess.
C1_Witness == procs = 1 /\ scanRunning /\ scanQueued

\* Nothing is armed and nothing runs: no scan can start without a new trigger.
Quiescent == timer = NoTimer /\ procs = 0

\* C2: after a scan closed with requests coalesced during its flight, and
\* with no further trigger (change notification or poll tick) since that
\* close, exactly one additional scan is started: never more than one, and
\* when the watcher has come to rest it is one, not zero.
C2_ExactlyOneExtra ==
  hTrack = "on" => /\ hStarted <= 1
                   /\ (Quiescent => hStarted = 1)
                   /\ (hStarted = 0 => timer # NoTimer /\ ~scanRunning)

\* C2 witness: the one additional scan has run and closed, the watcher rests.
C2_Witness == hTrack = "on" /\ Quiescent /\ hStarted = 1 /\ ~scanQueued

\* C3 (as stated): the runScan call that serves a burst of notifications is
\* made 500ms after the last notification of the burst.
C3_CallExactlyAtWindow == hDelay # -1 => hDelay = DEBOUNCE_MS

\* C3 (amended): a burst triggers one timer-driven runScan call, made no
\* earlier than 500ms after the last notification: exactly 500ms after it,
\* unless a scan closed with a queued request inside the quiet window and
\* re-armed the timeout; while notifications keep arriving inside the quiet
\* window the timeout stays armed beyond it and no call is made.
C3_DebouncedCall ==
  /\ hFires <= 1
  /\ (hPending => timer # NoTimer /\ timer + hSince >= DEBOUNCE_MS)
  /\ (hPending /\ ~hRearmed => timer + hSince = DEBOUNCE_MS)
  /\ (hDelay # -1 => hDelay >= DEBOUNCE_MS)
  /\ (hDelay # -1 /\ ~hRearmed => hDelay = DEBOUNCE_MS)

\* C3 witness: a burst of two notifications less than 500ms apart was served
\* by a call 500ms after the second one.
C3_Witness == hDelay = DEBOUNCE_MS /\ ~hPending /\ hFires = 1 /\ hBurst >= 2

\* ---- claims about the scanner ----

\* stat of every candidate file as the tree is now.
LiveStats ==
  [p \in Paths |-> IF files[p].exists THEN files[p].mtime ELSE Absent]
\* The persisted cache equals the live timestamps of the candidate files.
CacheClean == cacheFile.kind = "ok" /\ cacheFile.m = LiveStats
\* The persisted index holds exactly the records of the current file texts.
IndexCurrent ==
  LET now == BuildMap(LoadSourceFiles(files), 0)
  IN  /\ indexFile.kind = "map"
      /\ indexFile.detailByFilePath = now.detailByFilePath
      /\ indexFile.filePathsByClassName = now.filePathsByClassName

\* C4: with files edited while a scan runs, whenever the persisted cache is
\* clean the persisted index holds exactly the records extractable from the
\* current file contents.
C4_CleanCacheMeansCurrentIndex == CacheClean => IndexCurrent

\* C5: the cache file is written only after the index write of the same run
\* completed; a run that was skipped as clean or whose index write failed
\* leaves the cache file as it found it.
C5_CacheOnlyAfterIndex ==
  /\ (cacheFile # hCacheAtStart => hIndexDone)
  /\ (pc = "cache" => hIndexDone)
  /\ (hOutcome \in {"skipped", "indexFailed"} => cacheFile = hCacheAtStart)

\* C5 witness: a run wrote the index and then committed a new cache.
C5_Witness ==
  hOutcome = "saved" /\ hIndexDone /\ cacheFile # hCacheAtStart
    /\ indexFile.kind = "map" /\ indexFile.generatedAt = runId

\* C6: a reader of the persisted index never observes a partially written
\* index, only a complete snapshot (the previous or the new one).
C6_ReaderSeesCompleteIndex == served # "partial"

\* The candidate set of the current run.
Cand == {sfiles[i].path : i \in 1..Len(sfiles)}
C7_TimestampMissingOrDifferent ==
  \E p \in Cand : hPrev[p] = Absent \/ hPrev[p] # curStats[p]
C7_CountDiffers == Cardinality(Cand) # Cardinality(CachedPaths(hPrev))
C7_CachedFileGone == \E p \in CachedPaths(hPrev) : p \notin Cand
C7_IndexMissing == ~hIdxExisted

\* C7: the scan rebuilds whenever a candidate's timestamp is absent from or
\* differs from the previous cache, the counts differ, a cached file is no
\* longer a candidate, or no index file exists; it skips only when the
\* candidate set equals the cached set, every timestamp matches and the
\* index file exists.
C7_RebuildWhenDirty ==
  hOutcome # "none" =>
    /\ (C7_TimestampMissingOrDifferent \/ C7_CountDiffers
          \/ C7_CachedFileGone \/ C7_IndexMissing) => hOutcome # "skipped"
    /\ hOutcome = "skipped" =>
         /\ Cand = CachedPaths(hPrev)
         /\ \A p \in Cand : hPrev[p] = curStats[p]
         /\ hIdxExisted

\* C7 witness: the cache matches the tree in members and timestamps, and the
\* run rebuilds all the same because the index file is missing.
C7_Witness ==
  /\ hOutcome = "rebuild"
  /\ Cand # {}
  /\ C7_IndexMissing
  /\ ~C7_TimestampMissingOrDifferent
  /\ ~C7_CountDiffers
  /\ ~C7_CachedFileGone

\* C8: a second run over an unchanged file set (the run before exited 0 and
\* nothing was touched since it started, whatever the timestamps are) does
\* not rebuild and writes neither the index nor the cache.
C8_SecondRunWritesNothing ==
  (hPrevOk /\ ~hEnvSince) =>
    /\ hOutcome \in {"none", "skipped"}
    /\ indexFile = hIndexAtStart
    /\ cacheFile = hCacheAtStart

\* ---- claims about the identity resolver ----

\* The candidate file paths the loaded index stores for a name ([] if none).
CandsOf(name) ==
  IF ObjHas(CMP_MAP.filePathsByClassName, name)
    THEN ObjGet(CMP_MAP.filePathsByClassName, name)
    ELSE <<>>
\* The last call was made on the loaded index that is still in place.
Resolved == hAt.loaded /\ ~CMP_MAP.isNull

\* C9: when the name as given has at least one candidate file path, the
\* resolver answers from that name's list alone: the only list consulted is
\* the one of the given name, the file chosen is a member of it, and the
\* list of the underscore-stripped name is neither consulted nor appended.
C9_StopsAtFirstName ==
  (Resolved /\ Len(CandsOf(lastQuery)) > 0) =>
    /\ lastResult.found
    /\ lastResult.consulted = <<lastQuery>>
    /\ lastResult.list = CandsOf(lastQuery)
    /\ SeqHas(CandsOf(lastQuery), lastResult.info.filePath)

\* C9 witness: "_F" was resolved while both "_F" and the stripped "F" have
\* candidates, in different files; only the list of "_F" was consulted.
C9_Witness ==
  /\ Resolved
  /\ lastQuery = N_uF
  /\ Len(CandsOf(N_uF)) > 0
  /\ Len(CandsOf(N_F)) > 0
  /\ \E i \in 1..Len(CandsOf(N_F)) : ~SeqHas(CandsOf(N_uF), CandsOf(N_F)[i])
  /\ lastResult.found
  /\ lastResult.consulted = <<N_uF>>

\* The relevance score of a candidate at the last call.
ScoreAt(filePath) == CalculatePathRelevance(filePath, hAt.path)
\* Position of the file chosen in the list it was chosen from.
ChosenAt(i) == lastResult.list[i] = lastResult.info.filePath

\* C10: among several candidates the one chosen has the highest score, and
\* every candidate stored before it scores strictly less (ties go to the
\* first in insertion order); for ["a/widgets/foo.ts", "b/dashboard/foo.ts"]
\* at /dashboard/settings the scores are 0 and 10 and the second is chosen.
C10_HighestScoreFirstOnTie ==
  (Resolved /\ lastResult.found /\ Len(lastResult.list) > 1) =>
    /\ \E i \in 1..Len(lastResult.list) :
         /\ ChosenAt(i)
         /\ \A j \in 1..Len(lastResult.list) :
              /\ ScoreAt(lastResult.list[j]) <= ScoreAt(lastResult.list[i])
              /\ j < i =>
                   ScoreAt(lastResult.list[j]) < ScoreAt(lastResult.list[i])
    /\ (lastResult.list = <<P_widgets, P_dashboard>> /\ hAt.path = U_dashboard)
         => /\ lastResult.info.filePath = P_dashboard
            /\ ScoreAt(P_widgets) = 0
            /\ ScoreAt(P_dashboard) = 10

\* C10 witness: two candidates tie at the highest score and the one stored
\* first was chosen.
C10_Witness ==
  /\ Resolved
  /\ lastResult.found
  /\ Len(lastResult.list) > 1
  /\ ChosenAt(1)
  /\ \E j \in 2..Len(lastResult.list) :
       ScoreAt(lastResult.list[j]) = ScoreAt(lastResult.list[1])

\* The navigation path cut at "/" with empty pieces dropped, as a list.
NavSegs == Segments(hAt.path)
\* Same string up to the case of letters.
SameFolded(a, b) ==
  Len(a) = Len(b) /\ \A k \in 1..Len(a) : LowerChar(a[k]) = LowerChar(b[k])
\* s occurs in str from position k on, letters compared without case.
OccursFoldedAt(str, s, k) ==
  k + Len(s) - 1 <= Len(str) /\ SameFolded(SubSeq(str, k, k + Len(s) - 1), s)
\* 10 per navigation segment from the i-th on that is a whole segment of f.
RECURSIVE SegmentPoints(_, _)
SegmentPoints(f, i) ==
  IF i > Len(NavSegs) THEN 0
  ELSE (IF \E k \in 1..Len(Segments(f)) : Segments(f)[k] = NavSegs[i]
          THEN 10 ELSE 0) + SegmentPoints(f, i + 1)
\* 20 per adjacent pair of navigation segments whose "a/b" is inside f.
RECURSIVE PairPoints(_, _)
PairPoints(f, i) ==
  IF i >= Len(NavSegs) THEN 0
  ELSE (IF StrIncludes(f, NavSegs[i] \o <<"/">> \o NavSegs[i + 1])
          THEN 20 ELSE 0) + PairPoints(f, i + 1)
\* 30 if the last navigation segment is inside f, case ignored.
LastPoints(f) ==
  IF Len(NavSegs) > 0
       /\ \E k \in 1..Len(f) : OccursFoldedAt(f, NavSegs[Len(NavSegs)], k)
    THEN 30 ELSE 0

\* C11: the score computed for every candidate of the last resolution is
\* 10 per navigation segment equal to a whole file segment, plus 20 per
\* adjacent pair "a/b" that is a substring of the file path, plus 30 if the
\* last navigation segment is a case-insensitive substring of it; 0 at "/".
C11_ScoreIsSumOfThreeRules ==
  (Resolved /\ lastResult.found /\ Len(lastResult.list) > 1) =>
    \A i \in 1..Len(lastResult.list) :
      LET f == lastResult.list[i]
      IN  /\ ScoreAt(f) = SegmentPoints(f, 1) + PairPoints(f, 1) + LastPoints(f)
          /\ Len(NavSegs) = 0 => ScoreAt(f) = 0

\* C11 witness: at /a/b the candidates x/a/f and a/b/g were scored; the
\* first earns one segment and nothing else, the second all three rules.
C11_Witness ==
  /\ Resolved
  /\ lastResult.found
  /\ hAt.path = U_ab
  /\ SeqHas(lastResult.list, P_xaf)
  /\ SeqHas(lastResult.list, P_abg)
  /\ ScoreAt(P_xaf) = 10
  /\ ScoreAt(P_abg) = 70

\* Number of underscores the name starts with.
LeadingUnderscores(name) ==
  CHOOSE k \in 0..Len(name) :
    /\ \A i \in 1..k : name[i] = "_"
    /\ (k < Len(name) => name[k + 1] # "_")
\* The name without the whole run of underscores it starts with.
Unprefixed(name) == SubSeq(name, LeadingUnderscores(name) + 1, Len(name))

\* C12: a name that starts with underscores and has no entry of its own is
\* answered from the entry of the name with the whole run of underscores
\* removed, when that entry exists: the record returned is the one of the
\* file selected from that entry's list.
C12_FallsBackToUnprefixedName ==
  (Resolved /\ LeadingUnderscores(lastQuery) > 0
     /\ Len(CandsOf(lastQuery)) = 0
     /\ Len(CandsOf(Unprefixed(lastQuery))) > 0) =>
    /\ lastResult.found
    /\ lastResult.consulted = <<Unprefixed(lastQuery)>>
    /\ lastResult.list = CandsOf(Unprefixed(lastQuery))
    /\ SeqHas(CandsOf(Unprefixed(lastQuery)), lastResult.info.filePath)
    /\ lastResult.info =
         ObjGet(CMP_MAP.detailByFilePath, lastResult.info.filePath)

\* C12 witness: "__F" has no entry, "F" has one, and the record of "F" was
\* returned.
C12_Witness ==
  /\ Resolved
  /\ lastQuery = N_uuF
  /\ Len(CandsOf(N_uuF)) = 0
  /\ Len(CandsOf(N_F)) > 0
  /\ lastResult.found
  /\ lastResult.info.className = N_F

\* ---- claims about the index the builder writes ----

\* The index was built from the tree and loaded by the page.
Loaded == ~CMP_MAP.isNull
\* The records of the index.
Records == ObjValues(CMP_MAP.detailByFilePath)
\* Number of records of the index for a file and a class name.
RecordsFor(path, name) ==
  Cardinality({i \in 1..Len(Records) :
                 Records[i].filePath = path /\ Records[i].className = name})

\* C13: the index holds exactly one record per (file, component class) the
\* extractor found, so a file declaring k classes contributes k records, and
\* resolving a name that has an entry returns a record of that name.
C13_OneRecordPerFileAndClass ==
  Loaded =>
    /\ \A i \in 1..Len(srcTree) : \A j \in 1..Len(srcTree[i].classes) :
         RecordsFor(srcTree[i].path, srcTree[i].classes[j].name) = 1
    /\ (Resolved /\ lastResult.found /\ Len(CandsOf(lastQuery)) > 0) =>
         lastResult.info.className = lastQuery

\* C14: every file path listed under a class name in the index is a key of
\* detailByFilePath.
C14_ListedPathsHaveRecords ==
  Loaded =>
    \A i \in 1..Len(CMP_MAP.filePathsByClassName) :
      \A j \in 1..Len(CMP_MAP.filePathsByClassName[i].v) :
        ObjHas(CMP_MAP.detailByFilePath, CMP_MAP.filePathsByClassName[i].v[j])

\* C14 witness: a class name is listed with two files, one of which declares
\* a second class as well, and both files have their record.
C14_Witness ==
  /\ Loaded
  /\ Len(CandsOf(N_F)) > 1
  /\ Len(CandsOf(N_uF)) > 0
  /\ \E j \in 1..Len(CandsOf(N_F)) : SeqHas(CandsOf(N_uF), CandsOf(N_F)[j])
  /\ \A j \in 1..Len(CandsOf(N_F)) :
       ObjHas(CMP_MAP.detailByFilePath, CandsOf(N_F)[j])

\* Two name-to-paths objects hold the same names with the same lists.
SameMapping(a, b) ==
  /\ \A i \in 1..Len(a) : ObjHas(b, a[i].k) /\ ObjGet(b, a[i].k) = a[i].v
  /\ \A i \in 1..Len(b) : ObjHas(a, b[i].k)

\* C15: the name-to-paths map rebuilt by normalizeMap from detailByFilePath
\* alone is the one the builder wrote.
C15_DerivedMapRebuildable ==
  Loaded =>
    SameMapping(
      NormalizeMap([CMP_MAP EXCEPT !.filePathsByClassName = <<>>])
        .filePathsByClassName,
      BuildMap(srcTree, 1).filePathsByClassName)

\* ---- claims about the search ranker ----

\* The call has returned.
Ranked == rkBest # 0
\* The lines of the target file.
RkLines == SplitLines(rkContent)
\* The score of line l as the call left it (rkScores is doubled).
TwiceScore(l) == rkScores[l]
\* The term occurs in the line, case ignored.
Contains(line, term) ==
  \E k \in 1..(Len(line) + 1) : OccursFoldedAt(line, term, k)
\* The term occurs in the line as a whole word, case ignored: the text of the
\* term itself, a word boundary before it and one after it.
ContainsAsWord(line, term) ==
  \E k \in 1..(Len(line) + 1) :
     /\ OccursFoldedAt(line, term, k)
     /\ WordBoundary(line, k)
     /\ WordBoundary(line, k + Len(term))
\* The line without its leading blanks starts with the term, case ignored.
BeginsWith(line, term) ==
  \E k \in 1..(Len(line) + 1) :
     /\ OccursFoldedAt(line, term, k)
     /\ \A j \in 1..(k - 1) : line[j] = " "
\* Twice the points of the terms from the i-th on (0-based) for a line:
\* 2w, plus 3w as a whole word, plus 1.5w at the start, w = max(1, n - i).
RECURSIVE TwiceClaimed(_, _)
TwiceClaimed(line, i) ==
  IF i >= Len(rkTerms) THEN 0
  ELSE LET w == IF Len(rkTerms) - i > 1 THEN Len(rkTerms) - i ELSE 1
           t == rkTerms[i + 1]
       IN  (IF Contains(line, t)
              THEN 4 * w + (IF ContainsAsWord(line, t) THEN 6 * w ELSE 0)
                         + (IF BeginsWith(line, t) THEN 3 * w ELSE 0)
              ELSE 0) + TwiceClaimed(line, i + 1)
\* The highest score of a line.
TopScore == CHOOSE m \in {TwiceScore(l) : l \in 1..Len(rkScores)} :
              \A l \in 1..Len(rkScores) : TwiceScore(l) <= m

\* C16: a term with characters special to patterns never makes the ranking
\* fail and never sends the result back to line 1 while some line has a
\* score above zero.
C16_SpecialCharactersTolerated ==
  Ranked =>
    /\ ~rkThrew
    /\ TopScore > 0 => TwiceScore(rkBest) > 0

\* C17: when the ranking ran to its end, the score of every line is the sum
\* over the terms of 2w for a case-insensitive substring, plus 3w when the
\* term is also a whole word of the line, plus 1.5w when the trimmed line
\* starts with it, w = max(1, count - i).
C17_ScoreIsWeightedSum ==
  (Ranked /\ ~rkThrew) =>
    \A l \in 1..Len(RkLines) : TwiceScore(l) = TwiceClaimed(RkLines[l], 0)

\* C18: the line returned has the highest score when that score is above
\* zero, and is the lowest-numbered such line; line 1 is returned when no
\* line scores above zero; the result is a line of the file.
C18_BestLineIsFirstMaximum ==
  Ranked =>
    /\ rkBest \in 1..Len(RkLines)
    /\ TopScore > 0 =>
         /\ TwiceScore(rkBest) = TopScore
         /\ \A l \in 1..(rkBest - 1) : TwiceScore(l) < TopScore
    /\ TopScore = 0 => rkBest = 1

StrategyRank(strategy) ==
  CASE strategy = "override" -> 1
    [] strategy = "preferred" -> 2
    [] strategy = "fallback" -> 3
\* launchInEditor has served a request.
Launched == lnResult # "none"

\* C20: the spawn calls of a request follow the order override, preferred
\* editor, fallback editor, each strategy at most once; no call is made
\* after one that did not throw, so at most one process is started; with an
\* override set it is tried first, and when it launches no template is tried.
C20_FirstSuccessEndsChain ==
  Launched =>
    /\ \A i, j \in 1..Len(lnLog) :
         i < j => StrategyRank(lnLog[i].strategy) < StrategyRank(lnLog[j].strategy)
    /\ \A i \in 1..(Len(lnLog) - 1) : lnLog[i].outcome = "threw"
    /\ Cardinality({i \in 1..Len(lnLog) : lnLog[i].outcome = "started"}) <= 1
    /\ lnEditorCmd =>
         /\ lnLog[1].strategy = "override"
         /\ lnLog[1].outcome # "threw" => (Len(lnLog) = 1 /\ lnResult = "true")
    /\ ~lnEditorCmd => \A i \in 1..Len(lnLog) : lnLog[i].strategy # "override"

\* C20 witness: the override and the preferred editor threw, the fallback
\* editor started, and the request succeeded with that one process.
C20_Witness ==
  /\ Launched
  /\ lnEditorCmd
  /\ Len(lnLog) = 3
  /\ lnLog[1].outcome = "threw"
  /\ lnLog[2].outcome = "threw"
  /\ lnLog[3].outcome = "started"
  /\ lnResult = "true"

\* The spawn calls a request made for the given strategy.
AttemptsOf(strategy) ==
  {i \in 1..Len(lnLog) : lnLog[i].strategy = strategy}

\* C21: when the preferred editor's launch throws, the fallback editor is
\* attempted exactly once; no strategy is attempted twice for one request;
\* and launchInEditor returns false (the endpoint then answers 500) if and
\* only if no attempted strategy started an editor process.
C21_FailureIffEveryAttemptFailed ==
  Launched =>
    /\ \A s \in {"override", "preferred", "fallback"} :
         Cardinality(AttemptsOf(s)) <= 1
    /\ \A i \in AttemptsOf("preferred") :
         (lnLog[i].outcome = "threw" /\ lnFallback \in TemplateEditors)
           => Cardinality(AttemptsOf("fallback")) = 1
    /\ (lnResult = "false") <=>
         (\A i \in 1..Len(lnLog) : lnLog[i].outcome # "started")

\* C21, the part that rests on spawn throwing: the same statement over the
\* requests in which every spawn call either started a process or threw.
C21_HoldsWhenFailuresThrow ==
  (\A i \in 1..Len(lnLog) : lnLog[i].outcome # "lost")
    => C21_FailureIffEveryAttemptFailed

\* ---- claims about the HTTP endpoints ----
\* The listener has answered the request svReq (or thrown).
Handled == svReq # NoRequest /\ ~svPending
OpenPaths == {"/__open-in-editor", "/__open-in-editor-search"}
\* The value is JSON for a list of strings.
IsStringList(text) ==
  LET j == JsonParse(text)
  IN  /\ j.ok
      /\ j.v.t = "arr"
      /\ \A i \in 1..Len(j.v.items) : j.v.items[i].t = "str"
\* A request to an open endpoint without `file`, or a search request
\* without `search` or whose `search` is not JSON for a list of strings.
Malformed(req) ==
  /\ req.method = "GET"
  /\ req.path \in OpenPaths
  /\ \/ Missing(req.file)
     \/ /\ req.path = "/__open-in-editor-search"
        /\ (Missing(req.search) \/ ~IsStringList(req.search.v))
\* The answer is an error status and launchInEditor was not called.
Rejected ==
  /\ svStatus \in 400..599
  /\ lnResult = "none"
  /\ lnLog = <<>>

\* C22: a malformed request (no `file`; a search request with no `search`,
\* or with a `search` that is not valid JSON or not a list of strings) is
\* answered with an error status and launches no editor process.
C22_MalformedRequestRejected ==
  (Handled /\ Malformed(svReq)) => Rejected

\* C22, the cases the handlers do reject: no `file`, no `search`, and a
\* `search` that does not parse as JSON (with a `file` that line 379 can
\* decode).
C22_RejectedWhenMissingOrUnparsable ==
  (/\ Handled
   /\ Malformed(svReq)
   /\ \/ Missing(svReq.file)
      \/ Missing(svReq.search)
      \/ /\ ~JsonParse(svReq.search.v).ok
         /\ DecodeURIComponent(svReq.file.v).ok)
    => Rejected

\* launchInEditor was called for the request.
Dispatched == Handled /\ lnResult # "none"
\* The text is the decimal form of an integer >= 1.
IsPositiveInteger(text) ==
  /\ Len(text) > 0
  /\ \A i \in 1..Len(text) : IsDigit(text[i])
  /\ \E i \in 1..Len(text) : text[i] # "0"

\* C28: every target handed to the dispatcher has a line and a column that
\* are integers >= 1, whatever the `line` and `col` query values are; a
\* missing line or column is 1.
C28_TargetLineAndColumnAtLeastOne ==
  Dispatched =>
    /\ IsPositiveInteger(svTarget.line)
    /\ IsPositiveInteger(svTarget.col)
    /\ Missing(svReq.line) /\ svReq.path = "/__open-in-editor"
         => svTarget.line = <<"1">>
    /\ Missing(svReq.col) /\ svReq.path = "/__open-in-editor"
         => svTarget.col = <<"1">>

\* C28, the part the handlers keep: a missing line or column becomes 1, and
\* the search endpoint hands over a line >= 1 and column 1.
C28_DefaultsAndSearchTargets ==
  Dispatched =>
    /\ Missing(svReq.line) => IsPositiveInteger(svTarget.line)
    /\ Missing(svReq.col) => IsPositiveInteger(svTarget.col)
    /\ svReq.path = "/__open-in-editor"
         => /\ Missing(svReq.line) => svTarget.line = <<"1">>
            /\ Missing(svReq.col) => svTarget.col = <<"1">>
    /\ svReq.path = "/__open-in-editor-search" => svTarget.col = <<"1">>

\* C30: the three resolution operations (GET /__cmp-map, /__open-in-editor,
\* /__open-in-editor-search) only read the persisted state: after any
\* sequence of such requests the index file and the cache file are what
\* they were when the server started.
C30_RequestsLeavePersistedFilesUnchanged ==
  /\ indexFile = hIndexAtStart
  /\ cacheFile = hCacheAtStart

\* C30 witness: the index has been fetched and a search request has opened
\* the editor, with an index and a cache on disk.
C30_Witness ==
  /\ served = "map"
  /\ Handled
  /\ svReq.path = "/__open-in-editor-search"
  /\ svStatus = 200
  /\ indexFile.kind = "map"
  /\ cacheFile.kind = "ok"

\* ---- claims about the choice of the editor ----
\* The first editor of the detection order that has a CLI, "" if none has.
FirstDetected ==
  IF "cursor" \in lnCli THEN "cursor"
  ELSE IF "code" \in lnCli THEN "code"
  ELSE IF "webstorm" \in lnCli THEN "webstorm"
  ELSE ""
\* DEFAULT_EDITOR follows the priority LAUNCH_EDITOR, config `editor`,
\* first detected editor, 'cursor'.
PreferredByPriority ==
  /\ lnEnvEditor # "" => lnPreferred = lnEnvEditor
  /\ (lnEnvEditor = "" /\ lnCfgEditor # "") => lnPreferred = lnCfgEditor
  /\ (lnEnvEditor = "" /\ lnCfgEditor = "" /\ FirstDetected # "")
       => lnPreferred = FirstDetected
  /\ (lnEnvEditor = "" /\ lnCfgEditor = "" /\ FirstDetected = "")
       => lnPreferred = "cursor"

\* C29: the editor command comes from EDITOR_CMD if set, else LAUNCH_EDITOR,
\* else the config `editor`, else the first detected editor, else 'cursor';
\* a lower-priority source is used only when every higher one is unset
\* (so with EDITOR_CMD set the preferred editor is never launched).
C29_LowerSourceOnlyWhenHigherUnset ==
  Launched =>
    /\ PreferredByPriority
    /\ lnEditorCmd => lnLog[1].strategy = "override"
    /\ \A i \in AttemptsOf("preferred") :
         lnLog[i].editor = lnPreferred /\ ~lnEditorCmd

\* C29 amended: the same priority; with EDITOR_CMD set the preferred editor
\* is launched only after the EDITOR_CMD launch threw.
C29_LowerSourceAfterOverrideThrew ==
  Launched =>
    /\ PreferredByPriority
    /\ lnEditorCmd => lnLog[1].strategy = "override"
    /\ \A i \in AttemptsOf("preferred") :
         /\ lnLog[i].editor = lnPreferred
         /\ lnEditorCmd => (i = 2 /\ lnLog[1].outcome = "threw")

\* C29 witness: nothing is set, code and webstorm are installed; the
\* request launches code, the first detected editor.
C29_Witness ==
  /\ Launched
  /\ ~lnEditorCmd
  /\ lnEnvEditor = ""
  /\ lnCfgEditor = ""
  /\ lnCli = {"code", "webstorm"}
  /\ Len(lnLog) = 1
  /\ lnLog[1].strategy = "preferred"
  /\ lnLog[1].editor = "code"
  /\ lnLog[1].outcome = "started"

\* ---- claims about the exclude globs and the identifier lists ----
\* The filter and the loop have run.
Built == bdIndex # NoIndex
EndsWith(str, pat) ==
  Len(pat) <= Len(str)
    /\ SubSeq(str, Len(str) - Len(pat) + 1, Len(str)) = pat
\* A directory pattern **/name/** and a file-suffix pattern **/*suffix.
IsDirGlob(g) ==
  Len(g) > 6 /\ StartsWith(g, <<"*", "*", "/">>) /\ EndsWith(g, <<"/", "*", "*">>)
IsSuffixGlob(g) ==
  Len(g) > 4 /\ StartsWith(g, <<"*", "*", "/", "*">>) /\ g[Len(g)] # "*"
\* The path matches the glob: a directory of the path has the name, or the
\* file name ends with the suffix.
GlobMatches(path, g) ==
  LET segs == Segments(path)
  IN  \/ /\ IsDirGlob(g)
         /\ \E i \in 1..(Len(segs) - 1) : segs[i] = SubSeq(g, 4, Len(g) - 3)
      \/ /\ IsSuffixGlob(g)
         /\ Len(segs) > 0
         /\ EndsWith(segs[Len(segs)], SubSeq(g, 5, Len(g)))
\* The file has a record in the index or is listed under an identifier.
Contributes(path) ==
  \/ ObjHas(bdIndex.detailByFilePath, path)
  \/ \E k \in 1..Len(bdIndex.filePathsByClassName) :
       SeqHas(bdIndex.filePathsByClassName[k].v, path)

\* C25: no file whose path matches one of the exclude globs contributes a
\* record to the index, for directory patterns (**/node_modules/**) and
\* for file-suffix patterns (**/*.spec.ts excludes foo.spec.ts anywhere).
C25_ExcludedFilesContributeNothing ==
  Built =>
    \A i \in 1..Len(bdFound), k \in 1..Len(bdGlobs) :
      GlobMatches(bdFound[i].path, bdGlobs[k])
        => ~Contributes(bdFound[i].path)

\* C25, directory patterns only: a file under an excluded directory
\* contributes nothing.
C25_ExcludedDirectoriesContributeNothing ==
  Built =>
    \A i \in 1..Len(bdFound), k \in 1..Len(bdGlobs) :
      (IsDirGlob(bdGlobs[k]) /\ GlobMatches(bdFound[i].path, bdGlobs[k]))
        => ~Contributes(bdFound[i].path)

\* The position in the scan of the first file with this path that declares
\* a component of this name (0: none).
FirstSeenAt(path, name) ==
  LET at == {i \in 1..Len(bdSources) :
               /\ bdSources[i].path = path
               /\ \E j \in 1..Len(bdSources[i].classes) :
                    bdSources[i].classes[j].name = name}
  IN  IF at = {} THEN 0 ELSE CHOOSE i \in at : \A j \in at : i <= j

\* C27: in the index the builder writes, each list of filePathsByClassName
\* has no duplicate path and lists the paths in the order in which the scan
\* first met them under that name.
C27_IdentifierListsOrderedWithoutDuplicates ==
  Built =>
    \A k \in 1..Len(bdIndex.filePathsByClassName) :
      LET name == bdIndex.filePathsByClassName[k].k
          list == bdIndex.filePathsByClassName[k].v
      IN  /\ \A i, j \in 1..Len(list) : i # j => list[i] # list[j]
          /\ \A i \in 1..Len(list) : FirstSeenAt(list[i], name) > 0
          /\ \A i, j \in 1..Len(list) :
               i < j => FirstSeenAt(list[i], name) < FirstSeenAt(list[j], name)

\* C27 witness: the first file declares A twice, the second declares B and
\* A; the list of A holds the two paths once each, in scan order.
C27_Witness ==
  /\ Built
  /\ Len(bdSources) = 2
  /\ bdSources[1].classes = <<Cls("A", ""), Cls("A", "")>>
  /\ bdSources[2].classes = <<Cls("B", ""), Cls("A", "")>>
  /\ ObjGet(bdIndex.filePathsByClassName, "A")
       = <<bdSources[1].path, bdSources[2].path>>

\* ---- claims about failures during a scan ----
\* The files of the tree whose extraction does not throw, as loaded.
RECURSIVE GoodFrom(_, _)
GoodFrom(sfs, i) ==
  IF i > Len(sfs) THEN <<>>
  ELSE (IF sfs[i].path \in broken THEN <<>> ELSE <<sfs[i]>>)
         \o GoodFrom(sfs, i + 1)
\* Two index files hold the same records and the same identifier lists.
SameRecords(a, b) ==
  /\ a.kind = b.kind
  /\ a.detailByFilePath = b.detailByFilePath
  /\ a.filePathsByClassName = b.filePathsByClassName

\* C23: when the extraction of a source file fails during a scan, the file
\* is skipped and the scan goes on: once the run is over (no write having
\* failed) the index is on disk and holds the records of every other file.
C23_FailedFileSkippedScanContinues ==
  (/\ pc \in {"exit0", "exit1"}
   /\ hOutcome \in {"buildFailed", "saved"})
    => SameRecords(indexFile, BuildMap(GoodFrom(sfiles, 1), runId))

\* C23, the runs in which no extraction fails: the index holds the records
\* of every file.
C23_IndexWrittenWhenNothingThrows ==
  (/\ pc \in {"exit0", "exit1"}
   /\ hOutcome \in {"buildFailed", "saved"}
   /\ \A i \in 1..Len(sfiles) : sfiles[i].path \notin broken)
    => SameRecords(indexFile, BuildMap(sfiles, runId))

\* A rebuild cycle has ended in a failed write of the index or of the cache,
\* and a complete index was on disk when it started.
WriteFailedOverGoodIndex ==
  /\ pc = "exit1"
  /\ hOutcome \in {"indexFailed", "cacheFailed"}
  /\ hIndexAtStart.kind = "map"

\* C24: when the index write or the cache write of a rebuild fails, the
\* index that was on disk before is unchanged (index write failed) and the
\* file GET /__cmp-map streams is a complete index.
C24_FailedWriteKeepsGoodIndex ==
  WriteFailedOverGoodIndex =>
    /\ indexFile.kind = "map"
    /\ hOutcome = "indexFailed" => indexFile = hIndexAtStart

\* C24, the cache write failing: the index on disk is the complete index
\* this run has just written.
C24_CacheFailureLeavesCompleteIndex ==
  (WriteFailedOverGoodIndex /\ hOutcome = "cacheFailed")
    => (indexFile.kind = "map" /\ hIndexDone)

\* ---- claims about touching a file ----
\* The first scan after the touch has reached its decision.
DecidedAfterTouch ==
  /\ hTouch.phase = "touched"
  /\ runId = hTouch.run + 1
  /\ hOutcome # "none"
\* The first scan after the revert is over and has failed at no write; the
\* index before the touch was a complete one.
RescannedAfterRevert ==
  /\ hTouch.phase = "reverted"
  /\ runId = hTouch.run + 1
  /\ pc = "exit0"
  /\ hTouch.before.kind = "map"

\* C26: touching one indexed file makes the next scan rebuild; after the
\* revert and another scan the persisted index is the same as the one
\* persisted before the touch, the whole file content being compared.
C26_SameIndexFileAfterTouchAndRevert ==
  /\ DecidedAfterTouch => hOutcome # "skipped"
  /\ RescannedAfterRevert => indexFile = hTouch.before

\* C26 amended: the same, the index after the revert having the records and
\* the identifier lists of the index before the touch (generatedAt is the
\* time of the later rebuild).
C26_SameRecordsAfterTouchAndRevert ==
  /\ DecidedAfterTouch => hOutcome # "skipped"
  /\ RescannedAfterRevert => SameRecords(indexFile, hTouch.before)

\* C26 witness: a file with a non-zero timestamp was touched, the scan
\* rebuilt, the file was reverted and the next scan rebuilt and saved again.
C26_Witness ==
  /\ RescannedAfterRevert
  /\ hTouch.mtime = 1
  /\ hOutcome = "saved"
  /\ indexFile.generatedAt # hTouch.before.generatedAt
  /\ Len(indexFile.detailByFilePath) = 2

\* A search request with a list of strings for a file that cannot be read.
SearchOfUnreadableFile ==
  /\ Handled
  /\ svReq.method = "GET"
  /\ svReq.path = "/__open-in-editor-search"
  /\ ~Missing(svReq.file)
  /\ ~Missing(svReq.search)
  /\ DecodeURIComponent(svReq.file.v).ok
  /\ ~ReadFileSync(DecodeURIComponent(svReq.file.v).s).ok
  /\ DecodeURIComponent(svReq.search.v).ok
  /\ IsStringList(DecodeURIComponent(svReq.search.v).s)

\* C31: when the target file of a search request cannot be read, the read
\* error does not end the request: launchInEditor is called for the file
\* at line 1, column 1, and the answer is that of the launch.
C31_UnreadableFileOpensAtLineOne ==
  SearchOfUnreadableFile =>
    /\ lnResult # "none"
    /\ svTarget = [file |-> DecodeURIComponent(svReq.file.v).s,
                   line |-> <<"1">>, col |-> <<"1">>]
    /\ svStatus = IF lnResult = "true" THEN 200 ELSE 500

\* C31 witness: a search for ["save"] in /app/gone.ts, which does not
\* exist, started the editor.
C31_Witness ==
  /\ SearchOfUnreadableFile
  /\ svReq.file = Param(P_appGone)
  /\ svReq.search = Param(J_terms)
  /\ svStatus = 200
  /\ Len(lnLog) = 1
  /\ lnLog[1].outcome = "started"

\* The last click was handled to its end on an element that resolves to a
\* component (so Alt was held and clicks were enabled).
ClickOpened ==
  /\ lastClick.state = "done"
  /\ lastClick.cmp.found

\* The first request of the last click: the component source at line 1 with
\* Shift or without a template reference, the template by search otherwise.
FirstRequestAsDocumented ==
  LET info == lastClick.cmp.info
      r == lastClick.requests[1]
  IN  IF lastClick.shiftKey \/ info.templateUrl = ""
        THEN r = [endpoint |-> "open", file |-> TsFile(info), line |-> 1,
                  col |-> 1]
        ELSE /\ r.endpoint = "search"
             /\ r.file = HtmlFile(info)

\* A click without Alt or with clicks disabled is not handled and issues
\* nothing; a handled click had Alt and clicks enabled.
NoRequestWithoutAlt ==
  /\ (lastClick.state # "none" /\ (~lastClick.altKey \/ ~OPTIONS.enableClick))
       => (lastClick.state = "ignored" /\ lastClick.requests = <<>>)
  /\ lastClick.requests # <<>> => ClickOpened

\* C32 as stated: an Alt+click on an element that resolves to a component
\* issues exactly one open request (the component source at line 1 with
\* Shift or without a template, the template by search otherwise), and a
\* click without Alt or with clicks disabled issues none.
C32_ExactlyOneRequestPerClick ==
  /\ NoRequestWithoutAlt
  /\ ClickOpened => (Len(lastClick.requests) = 1 /\ FirstRequestAsDocumented)

\* C32, amended: the first request is as documented, and it is the only one
\* unless it is a search whose fetch rejects: then exactly one further
\* request opens the template at line 1.
C32_OneRequestUnlessSearchRejected ==
  /\ NoRequestWithoutAlt
  /\ ClickOpened =>
       /\ Len(lastClick.requests) >= 1
       /\ FirstRequestAsDocumented
       /\ IF lastClick.requests[1].endpoint = "search"
              /\ lastClick.net = "rejected"
            THEN /\ Len(lastClick.requests) = 2
                 /\ lastClick.requests[2] =
                      [endpoint |-> "open",
                       file |-> HtmlFile(lastClick.cmp.info),
                       line |-> 1, col |-> 1]
            ELSE Len(lastClick.requests) = 1

\* C32 witness: an Alt+click without Shift on an element of a component
\* with a template was handled and issued its search request, the map
\* having been loaded by then.
C32_Witness ==
  /\ ClickOpened
  /\ ~lastClick.shiftKey
  /\ lastClick.target = "card"
  /\ lastClick.requests[1].endpoint = "search"
  /\ lastClick.net = "ok"

\* The last event was a mousemove over an element that resolves to a
\* component, handled with Alt held (as the key is and as the handlers
\* have it), hover enabled and the index loaded.
HoveredComponent ==
  /\ hMoved # NoElement
  /\ altDown /\ isAltPressed
  /\ OPTIONS.enableHover
  /\ ~CMP_MAP.isNull
  /\ GetNearestComponent(CMP_MAP, locPath, hMoved).found

\* C33: while Alt is held (hover enabled, index loaded), after a mousemove
\* over an element that resolves to a component the highlight overlay (and
\* the tooltip, when enabled) of that element is shown, whatever key,
\* blur, scroll, resize and mousemove events came before.
C33_HoverShowsOverlay ==
  HoveredComponent =>
    /\ currentHighlightOverlay = hMoved
    /\ OPTIONS.showTooltip => currentTooltip = hMoved

\* C39: in every reachable state of the hover state machine at most one
\* highlight overlay and at most one tooltip are attached to the page, and
\* one is attached only while isAltPressed is true.
C39_AtMostOneHighlightOnlyWhileAlt ==
  /\ domOverlays <= 1
  /\ domTooltips <= 1
  /\ (domOverlays > 0 \/ domTooltips > 0) => isAltPressed
  /\ domOverlays = (IF currentHighlightOverlay # NoElement THEN 1 ELSE 0)
  /\ domTooltips = (IF currentTooltip # NoElement THEN 1 ELSE 0)

\* C39 witness: an overlay and a tooltip are shown for an element while
\* Alt is held.
C39_Witness ==
  /\ isAltPressed
  /\ currentHighlightOverlay = "badge"
  /\ domOverlays = 1
  /\ domTooltips = 1

\* C38: after any sequence of installAngularLocator calls, also calls made
\* while the first one awaits the prefetch, every listener is registered at
\* most once, the options in effect are the merged options of the first
\* call, and INSTALLED (what isAngularLocatorInstalled returns) is true
\* from the first call on.
C38_InstalledOnceWithFirstOptions ==
  /\ INSTALLED = (hCalls >= 1)
  /\ hCalls >= 1 => OPTIONS = hFirstOptions
  /\ listeners.click <= 1 /\ listeners.keydown <= 1 /\ listeners.keyup <= 1
  /\ listeners.window <= 1
  /\ listeners.click = 1 => hFirstOptions.enableClick
  /\ listeners.keydown = 1 => hFirstOptions.enableHover

\* C38 witness: a second call was made while the first still awaits the
\* prefetch; no listener is registered yet.
C38_Witness ==
  /\ hCalls = 2
  /\ Len(fetches) = 1 /\ fetches[1].by = "install"
  /\ listeners = NoListeners

\* No fetch of the index is in flight and a map is loaded.
AllFetchesSettled ==
  /\ fetches = <<>>
  /\ ~CMP_MAP.isNull

\* C36: when the fetches of the index issued by the hover handler, by a
\* click and by refreshComponentMap have all settled, in whatever order
\* their responses arrived, the loaded map is the response of the
\* latest-issued fetch that carried an index: an older response never
\* overwrites a newer one.
C36_LatestIssuedFetchWins ==
  AllFetchesSettled => CMP_MAP = hLatest

\* C37: when refreshComponentMap fails (the fetch rejects or the body is
\* not JSON), the map that was loaded before the call is still loaded
\* after it.
C37_FailedRefreshKeepsMap ==
  (hRefresh.state = "failed" /\ hRefresh.before) => ~CMP_MAP.isNull

\* C35: the map ensureMap leaves loaded is consistent with its
\* detailByFilePath, whatever filePathsByClassName the fetched snapshot
\* carried (absent, empty, or non-empty but stale): every listed file path
\* has a record and every record's file path is listed under its class.
C35_LoadedMapConsistentWithRecords ==
  ~CMP_MAP.isNull =>
    /\ \A i \in 1..Len(CMP_MAP.filePathsByClassName) :
         \A j \in 1..Len(CMP_MAP.filePathsByClassName[i].v) :
           ObjHas(CMP_MAP.detailByFilePath,
                  CMP_MAP.filePathsByClassName[i].v[j])
    /\ \A i \in 1..Len(CMP_MAP.detailByFilePath) :
         LET info == CMP_MAP.detailByFilePath[i].v
         IN  /\ ObjHas(CMP_MAP.filePathsByClassName, info.className)
             /\ SeqHas(ObjGet(CMP_MAP.filePathsByClassName, info.className),
                       info.filePath)

\* From some point on no change notification arrives.
NotificationsStop == <>[][~FsNotify]_vars

\* C34: provided the notifications eventually stop, and under fairness,
\* every change notification is eventually followed by a scan that starts
\* after it (a queued request is not dropped), and the in-flight flag does
\* not stay set forever, whatever the exit codes of the scans.
C34_NotificationEventuallyScanned ==
  NotificationsStop =>
    /\ hUnserved ~> ~hUnserved
    /\ scanRunning ~> ~scanRunning
    /\ scanQueued ~> ~scanQueued

\* C34 witness: a notification waits for its scan while a scan is in
\* flight with a request queued behind it, the scan before having failed.
C34_Witness ==
  /\ hUnserved
  /\ scanRunning /\ scanQueued
  /\ lastCode = 1

====
